---- MODULE Spec2Model ----
(***************************************************************************)
(* MediaSquash: the encoder negotiator (src/src/hwEncoder.js), the         *)
(* never-larger policy of the two compressors (src/src/imageCompressor.js, *)
(* src/src/videoCompressor.js), the CLI batch run (src/src/index.js with   *)
(* parallelProcess of src/src/utils.js) and the GUI server run             *)
(* (server.js, kept here as src/unnamed/part_002).                         *)
(*                                                                         *)
(* JavaScript runs one callback at a time: an action below is one          *)
(* callback together with the promise continuations it triggers, up to the *)
(* next wait for an external event (a child process, a file read, an HTTP  *)
(* request).                                                               *)
(***************************************************************************)
EXTENDS Integers, Sequences, FiniteSets, TLC

\* ------------------------------------------------------------------------
\* Bounds of the model
\* ------------------------------------------------------------------------
MaxCallers == 2
MaxOverlap == 2
MaxPathSets == 1
MaxSize == 3
MaxFiles == 3
MaxBases == 2
MaxCounter == 1
MaxLiveFiles == 2
MaxZone == 5
MaxTimes == 1
MaxCpus == 24
MaxJobs == 2
MaxListing == 3
MaxHalfHours == 3
MaxRuns == 2

Null == << >>
Some(x) == <<x>>

Min(a, b) == IF a < b THEN a ELSE b
Max(a, b) == IF a > b THEN a ELSE b

VARIABLES
    encoderCache,   \* hwEncoder.js: let encoderCache
    ffmpegPath,     \* hwEncoder.js: let ffmpegPath (the number of overrides so far)
    settingsEncoder, \* videoCompressor.js: settings.encoder, one value per run
    caller,         \* the pending detectAvailableEncoders / getEncoderConfig calls
    lastRun,        \* history: what the last completed detection observed and returned
    detRuns,        \* history: how many times the detection procedure was started
    cmp,            \* one compressImage / compressVideo call: arguments, position, effect
    run,            \* which front end runs a batch, and where processFiles / processDirectory is
    cpuCount,       \* os.cpus().length
    files,          \* the items of the batch, in scan order
    opts,           \* the options of the batch
    task,           \* per item: position of its processor, planned path, outcome
    fsys,           \* the output tree: the files in it, each with its path (kind for
                    \* the extension, base for directory and name, n for the
                    \* collision counter, 0 for none), whose bytes, in what form
    pool,           \* processWithWorkerPool / parallelProcess: loop position, executing, results
    compressionState, \* server.js: let compressionState
    cli,            \* index.js processDirectory: totalOriginal, totalCompressed, successCount, failCount
    plan,           \* one call of an output path planner: inputs, position, result
    capture,        \* one getCaptureDate call: what it finds, position, result
    norm,            \* one normalizeOutputExtension call: arguments, position, result
    figures,         \* the concurrency figures of one run: front end, CPU count, --jobs, results
    item,            \* one item of a rename-only run: front end, source, file written, accounting
    lookup,          \* one findJsonSidecar call: the media file, the directory listing, the result
    probes,          \* per call, what the exec callbacks of its detection were handed
    session,        \* the requests of a GUI session: runs accepted, last response, cancels
    activeProcesses, \* index.js: const activeProcesses, the items whose command is in the set
    par             \* one parallelProcess call: its pool, how each processor ended, the values its promises took, the array returned

varsEnc == <<encoderCache, ffmpegPath, settingsEncoder, caller, lastRun, detRuns>>
varsCmp == <<cmp>>
varsRun == <<run, cpuCount, files, opts, task, fsys, pool, compressionState, cli>>

varsPlan == <<plan>>
varsDate == <<capture>>
varsNorm == <<norm>>
varsConc == <<figures>>
varsCopy == <<item>>
varsSide == <<lookup>>
varsProbe == <<probes>>
varsSession == <<session>>
varsProc == <<activeProcesses>>
varsPar == <<par>>

vars == <<varsEnc, varsCmp, varsRun, varsPlan, varsDate, varsNorm, varsConc, varsCopy, varsSide, varsProbe, varsSession, varsProc, varsPar>>

\* what the operations of one component leave alone
notEnc == <<varsCmp, varsRun, varsPlan, varsDate, varsNorm, varsConc, varsCopy, varsSide, varsProbe, varsSession, varsProc, varsPar>>
notCmp == <<varsEnc, varsRun, varsPlan, varsDate, varsNorm, varsConc, varsCopy, varsSide, varsProbe, varsSession, varsProc, varsPar>>
notRun == <<varsEnc, varsCmp, varsPlan, varsDate, varsNorm, varsConc, varsCopy, varsSide, varsProbe, varsSession, varsProc, varsPar>>
notPlan == <<varsEnc, varsCmp, varsRun, varsDate, varsNorm, varsConc, varsCopy, varsSide, varsProbe, varsSession, varsProc, varsPar>>
notDate == <<varsEnc, varsCmp, varsRun, varsPlan, varsNorm, varsConc, varsCopy, varsSide, varsProbe, varsSession, varsProc, varsPar>>
notNorm == <<varsEnc, varsCmp, varsRun, varsPlan, varsDate, varsConc, varsCopy, varsSide, varsProbe, varsSession, varsProc, varsPar>>
notConc == <<varsEnc, varsCmp, varsRun, varsPlan, varsDate, varsNorm, varsCopy, varsSide, varsProbe, varsSession, varsProc, varsPar>>
notCopy == <<varsEnc, varsCmp, varsRun, varsPlan, varsDate, varsNorm, varsConc, varsSide, varsProbe, varsSession, varsProc, varsPar>>
notSide == <<varsEnc, varsCmp, varsRun, varsPlan, varsDate, varsNorm, varsConc, varsCopy, varsProbe, varsSession, varsProc, varsPar>>
notProbe == <<varsEnc, varsCmp, varsRun, varsPlan, varsDate, varsNorm, varsConc, varsCopy, varsSide, varsSession, varsProc, varsPar>>
notEncProbe == <<varsCmp, varsRun, varsPlan, varsDate, varsNorm, varsConc, varsCopy, varsSide, varsSession, varsProc, varsPar>>
notSession == <<varsEnc, varsCmp, varsRun, varsPlan, varsDate, varsNorm, varsConc, varsCopy, varsSide, varsProbe, varsProc, varsPar>>
notRunSession == <<varsEnc, varsCmp, varsPlan, varsDate, varsNorm, varsConc, varsCopy, varsSide, varsProbe, varsProc, varsPar>>
notRunProc == <<varsEnc, varsCmp, varsPlan, varsDate, varsNorm, varsConc, varsCopy, varsSide, varsProbe, varsSession, varsPar>>
notProc == <<varsEnc, varsCmp, varsRun, varsPlan, varsDate, varsNorm, varsConc, varsCopy, varsSide, varsProbe, varsSession, varsPar>>
notPar == <<varsEnc, varsCmp, varsRun, varsPlan, varsDate, varsNorm, varsConc, varsCopy, varsSide, varsProbe, varsSession, varsProc>>

\* ------------------------------------------------------------------------
\* State of a batch run before any request (server.js:23-31, index.js:182-185)
\* ------------------------------------------------------------------------
NoPath == [kind |-> "none", base |-> 0, n |-> 0]

NoPool ==
    [items |-> << >>, next |-> 1, executing |-> {}, pc |-> "idle", conc |-> 0,
     results |-> << >>]

IdleState ==
    [isRunning |-> FALSE, shouldCancel |-> FALSE, processed |-> 0, total |-> 0,
     success |-> 0, failed |-> 0, totalOriginal |-> 0, totalCompressed |-> 0]

CliZero ==
    [totalOriginal |-> 0, totalCompressed |-> 0, successCount |-> 0, failCount |-> 0]

Kinds == {"image", "video"}

RunIdle ==
    /\ run = [mode |-> "none", phase |-> "idle", complete |-> 0]
    /\ cpuCount = 0
    /\ files = << >>
    /\ opts = [renameOnly |-> FALSE]
    /\ task = << >>
    /\ fsys = {}
    /\ pool = NoPool
    /\ compressionState = IdleState
    /\ cli = CliZero

\* a specification that does not follow the calls of a group leaves the
\* group's variable empty
\* no planner call is being followed
NoFields ==
    [year |-> 0, month |-> 0, day |-> 0, hours |-> 0, minutes |-> 0, seconds |-> 0]

NoName == [kind |-> "none", fields |-> NoFields]

NoPlan ==
    [pc |-> "idle", planner |-> "none", rename |-> FALSE, date |-> Null,
     disk |-> {}, path |-> [name |-> NoName, n |-> 0]]

PlanIdle == plan = << >>

\* no period folder: the kind of folder name, its year and month
NoFolder == [kind |-> "none", year |-> 0, month |-> 0]

\* no getCaptureDate call is being followed
NoCapture ==
    [pc |-> "idle", kind |-> "none", sidecar |-> "none", stamp |-> 0,
     meta |-> "none", statOk |-> FALSE, offset |-> 0, date |-> Null,
     name |-> NoName, front |-> "none", folder |-> NoFolder]

DateIdle == capture = << >>

\* no normalizeOutputExtension call is being followed
NoFile == [dir |-> << >>, base |-> "none", ext |-> "none", upper |-> FALSE]

NoNorm ==
    [pc |-> "idle", filePath |-> NoFile, format |-> "none", dot |-> FALSE,
     out |-> NoFile]

NormIdle == norm = << >>

\* no computation of concurrency figures is being followed
NoFigures ==
    [pc |-> "idle", front |-> "none", cpus |-> 0, jobs |-> Null,
     image |-> 0, video |-> 0, threads |-> 0]

ConcIdle == figures = << >>

\* no rename-only item is being followed
NoItem ==
    [pc |-> "idle", front |-> "none", ext |-> "none", size |-> 0,
     form |-> "none", counted |-> "none", originalSize |-> 0, compressedSize |-> 0]

CopyIdle == item = << >>

\* no findJsonSidecar call is being followed
NoLookup ==
    [pc |-> "idle", extension |-> << >>, listing |-> << >>, found |-> Null]

SideIdle == lookup = << >>

\* no exec callback of a detection has been recorded; path is the ffmpegPath
\* the detection was started under
NoProbe ==
    [listing |-> [nvenc |-> [error |-> "none", output |-> "unasked"],
                  amf |-> [error |-> "none", output |-> "unasked"],
                  qsv |-> [error |-> "none", output |-> "unasked"]],
     smoke |-> [nvenc |-> "untested", amf |-> "untested", qsv |-> "untested"],
     path |-> 0]

ProbeIdle == probes = << >>

\* the requests of a GUI session before the first one: runs accepted, the
\* last response, whether a cancel arrived during the current run, and
\* whether one arrived while no run was active ("pending") and a run was
\* accepted after it ("carried")
NoSession ==
    [runs |-> 0, response |-> "none", cancelled |-> FALSE, stale |-> "none"]

SessionIdle == session = << >>

\* index.js: const activeProcesses = new Set(), the commands a run has
\* reported through onStart and not yet taken out again
ProcIdle == activeProcesses = << >>

\* utils.js parallelProcess: one call followed on its own
ParIdle == par = << >>

\* no compressImage / compressVideo call is being followed
NoCall ==
    [fn |-> "none", inputExt |-> "none", outputExt |-> "none", originalSize |-> 0,
     pc |-> "idle", encodedSize |-> 0, outBytes |-> "none", compressedSize |-> 0]

CmpIdle == cmp = << >>

\* ========================================================================
\* Encoder negotiator: src/src/hwEncoder.js
\* ========================================================================
Callers == 1..MaxCallers

HwOrder == <<"nvenc", "amf", "qsv">>
HwIds == {"nvenc", "amf", "qsv"}
SwIds == {"x264", "x265"}
EncoderIds == HwIds \cup SwIds
RequestIds == {"auto"} \cup EncoderIds

\* ENCODER_CONFIGS[encoder].codec; an id without a profile has no codec
EncoderCodec(encoder) ==
    CASE encoder = "nvenc" -> "h264_nvenc"
      [] encoder = "amf" -> "h264_amf"
      [] encoder = "qsv" -> "h264_qsv"
      [] encoder = "x264" -> "libx264"
      [] encoder = "x265" -> "libx265"
      [] OTHER -> "undefined"

\* const results = { nvenc: false, amf: false, qsv: false, x264: true, x265: true }
InitialResults ==
    [nvenc |-> FALSE, amf |-> FALSE, qsv |-> FALSE, x264 |-> TRUE, x265 |-> TRUE]

NoHw == [e \in HwIds |-> FALSE]

AvailabilityMaps ==
    {[nvenc |-> a, amf |-> b, qsv |-> c, x264 |-> TRUE, x265 |-> TRUE] :
        a \in BOOLEAN, b \in BOOLEAN, c \in BOOLEAN}

\* getBestEncoder: priority NVENC > AMF > QSV > x264
GetBestEncoder(available) ==
    IF available.nvenc THEN "nvenc"
    ELSE IF available.amf THEN "amf"
    ELSE IF available.qsv THEN "qsv"
    ELSE "x264"

FallbackNvencSkipsQsv(encoder, available) ==
    IF encoder = "nvenc" /\ ~available.nvenc
    THEN (IF available.amf THEN "amf" ELSE "x264")
    ELSE encoder

\* getEncoderConfig, first fallback: if (encoder === 'nvenc' && !available.nvenc)
FallbackNvenc(encoder, available) ==
    IF encoder = "nvenc" /\ ~available.nvenc
    THEN (IF available.amf THEN "amf" ELSE IF available.qsv THEN "qsv" ELSE "x264")
    ELSE encoder

\* second fallback: if (encoder === 'amf' && !available.amf)
FallbackAmf(encoder, available) ==
    IF encoder = "amf" /\ ~available.amf
    THEN (IF available.qsv THEN "qsv" ELSE "x264")
    ELSE encoder

\* third fallback: if (encoder === 'qsv' && !available.qsv)
FallbackQsv(encoder, available) ==
    IF encoder = "qsv" /\ ~available.qsv THEN "x264" ELSE encoder

\* getEncoderConfig(encoder): 'auto' is replaced by getBestEncoder(), then the
\* three fallbacks run in sequence; both reads of the availability map are
\* served in one chain of continuations, hence from the same map.
GetEncoderConfig(encoder, available) ==
    LET e0 == IF encoder = "auto" THEN GetBestEncoder(available) ELSE encoder
        e1 == FallbackNvenc(e0, available)
        e2 == FallbackAmf(e1, available)
        e3 == FallbackQsv(e2, available)
    IN [type |-> e3, codec |-> EncoderCodec(e3)]

IdleCaller ==
    [stage |-> "idle", await |-> "none", idx |-> 1, results |-> InitialResults,
     listed |-> NoHw, tested |-> NoHw, passed |-> NoHw,
     ret |-> Null, config |-> Null]

\* the encoder setting of the calls explored together with detection:
\* DEFAULT_SETTINGS.encoder (every other id is explored in SpecNeg)
RunEncoders == {"auto"}

\* the hwEncoder module as loaded, before any call
EncLoaded ==
    /\ encoderCache = Null
    /\ ffmpegPath = 0
    /\ settingsEncoder = "auto"
    /\ caller = [c \in Callers |-> IdleCaller]
    /\ lastRun = Null
    /\ detRuns = 0

InitEnc ==
    /\ ParIdle
    /\ ProcIdle
    /\ SessionIdle
    /\ ProbeIdle
    /\ SideIdle
    /\ CopyIdle
    /\ ConcIdle
    /\ NormIdle
    /\ CmpIdle
    /\ RunIdle
    /\ PlanIdle
    /\ DateIdle
    /\ encoderCache = Null
    /\ ffmpegPath = 0
    /\ settingsEncoder \in RunEncoders
    /\ caller = [c \in Callers |-> IdleCaller]
    /\ lastRun = Null
    /\ detRuns = 0

\* the calls that are inside the detection procedure
Detecting == {c \in Callers : caller[c].await # "none"}

\* the state of a call that enters the detection procedure (lines 142-153)
StartDetection(stage) ==
    [IdleCaller EXCEPT !.stage = stage, !.await = "list"]

\* the state of a call that has returned map ret (and profile config)
Returned(ret, config) ==
    [IdleCaller EXCEPT !.stage = "done", !.ret = ret, !.config = config]

\* callers are numbered in the order of their calls
NextToCall(c) ==
    /\ caller[c].stage = "idle"
    /\ \A d \in Callers : d < c => caller[d].stage # "idle"

CacheHitNever(forceRecheck) == FALSE

\* if (encoderCache && !forceRecheck) return encoderCache;
CacheHit(forceRecheck) == encoderCache # Null /\ ~forceRecheck

\* detectAvailableEncoders(forceRecheck) called on its own (GET /api/encoders
\* passes nothing; the function is exported with its parameter); stage
\* "forced" marks a detection that forceRecheck entered over a filled cache
CallDetect(c, forceRecheck) ==
    /\ NextToCall(c)
    /\ IF CacheHit(forceRecheck)
       THEN /\ caller' = [caller EXCEPT ![c] = Returned(encoderCache, Null)]
            /\ UNCHANGED detRuns
       ELSE /\ Cardinality(Detecting) < MaxOverlap
            /\ caller' = [caller EXCEPT ![c] =
                   StartDetection(IF forceRecheck /\ encoderCache # Null
                                  THEN "forced" ELSE "plain")]
            /\ detRuns' = detRuns + 1
    /\ UNCHANGED <<encoderCache, ffmpegPath, settingsEncoder, lastRun>>
    /\ UNCHANGED notEnc

\* getEncoderConfig(settings.encoder), as compressVideo calls it
CallGetEncoderConfig(c) ==
    /\ NextToCall(c)
    /\ IF CacheHit(FALSE)
       THEN /\ caller' = [caller EXCEPT ![c] =
                   Returned(encoderCache,
                       Some(GetEncoderConfig(settingsEncoder, encoderCache[1])))]
            /\ UNCHANGED detRuns
       ELSE /\ Cardinality(Detecting) < MaxOverlap
            /\ caller' = [caller EXCEPT ![c] = StartDetection("config")]
            /\ detRuns' = detRuns + 1
    /\ UNCHANGED <<encoderCache, ffmpegPath, settingsEncoder, lastRun>>
    /\ UNCHANGED notEnc

AfterSmokeTestAlwaysTrue(results, e, passed) == [results EXCEPT ![e] = TRUE]

\* results.nvenc = await testEncoder('h264_nvenc'), and likewise amf, qsv
AfterSmokeTest(results, e, passed) == [results EXCEPT ![e] = passed]

\* if (await isEncoderAvailable(...)): the smoke test follows a listing hit only
SmokeTestNeeded(isListed) == isListed

\* the rest of detectAvailableEncoders after the check of HwOrder[idx] is over:
\* the next listing query, or lines 188-191 (encoderCache = results; return)
\* followed by the continuation of the getEncoderConfig call that waited
Advance(c, cl) ==
    IF cl.idx < Len(HwOrder)
    THEN /\ caller' = [caller EXCEPT ![c] =
                [cl EXCEPT !.idx = cl.idx + 1, !.await = "list"]]
         /\ UNCHANGED <<encoderCache, lastRun>>
    ELSE /\ encoderCache' = Some(cl.results)
         /\ lastRun' = Some([results |-> cl.results, listed |-> cl.listed,
                             tested |-> cl.tested, passed |-> cl.passed])
         /\ caller' = [caller EXCEPT ![c] =
                Returned(Some(cl.results),
                         IF cl.stage \in {"plain", "forced"} THEN Null
                         ELSE Some(GetEncoderConfig(settingsEncoder, cl.results)))]

\* isEncoderAvailable resolves: the regex test on the encoder listing
ListingReturns(c, isListed) ==
    /\ caller[c].await = "list"
    /\ LET e == HwOrder[caller[c].idx]
           cl == [caller[c] EXCEPT !.listed[e] = isListed]
       IN IF SmokeTestNeeded(isListed)
          THEN /\ caller' = [caller EXCEPT ![c] = [cl EXCEPT !.await = "test"]]
               /\ UNCHANGED <<encoderCache, lastRun>>
          ELSE Advance(c, cl)
    /\ UNCHANGED <<ffmpegPath, settingsEncoder, detRuns>>
    /\ UNCHANGED notEnc

\* testEncoder resolves: resolve(!error)
SmokeTestReturns(c, passed) ==
    /\ caller[c].await = "test"
    /\ LET e == HwOrder[caller[c].idx]
           cl == [caller[c] EXCEPT !.tested[e] = TRUE, !.passed[e] = passed,
                                   !.results = AfterSmokeTest(@, e, passed)]
       IN Advance(c, cl)
    /\ UNCHANGED <<ffmpegPath, settingsEncoder, detRuns>>
    /\ UNCHANGED notEnc

\* setFFmpegPath(customPath)
SetFFmpegPath ==
    /\ ffmpegPath < MaxPathSets
    /\ ffmpegPath' = ffmpegPath + 1
    /\ encoderCache' = Null
    /\ UNCHANGED <<settingsEncoder, caller, lastRun, detRuns>>
    /\ UNCHANGED notEnc

NextEnc ==
    \/ \E c \in Callers : CallDetect(c, FALSE)
    \/ \E c \in Callers : CallGetEncoderConfig(c)
    \/ \E c \in Callers, b \in BOOLEAN : ListingReturns(c, b)
    \/ \E c \in Callers, b \in BOOLEAN : SmokeTestReturns(c, b)
    \/ SetFFmpegPath

SpecEnc == InitEnc /\ [][NextEnc]_vars

\* detectAvailableEncoders called on its own, with and without forceRecheck
NextForce ==
    \/ \E c \in Callers, forceRecheck \in BOOLEAN : CallDetect(c, forceRecheck)
    \/ \E c \in Callers, b \in BOOLEAN : ListingReturns(c, b)
    \/ \E c \in Callers, b \in BOOLEAN : SmokeTestReturns(c, b)
    \/ SetFFmpegPath

SpecForce == InitEnc /\ [][NextForce]_vars

\* getEncoderConfig as a function of its two inputs: every requested id
\* against every availability map a detection can have left in the cache
InitNeg ==
    /\ ParIdle
    /\ ProcIdle
    /\ SessionIdle
    /\ ProbeIdle
    /\ SideIdle
    /\ CopyIdle
    /\ ConcIdle
    /\ NormIdle
    /\ CmpIdle
    /\ RunIdle
    /\ PlanIdle
    /\ DateIdle
    /\ encoderCache \in {Some(m) : m \in AvailabilityMaps}
    /\ ffmpegPath = 0
    /\ settingsEncoder \in RequestIds
    /\ caller = [c \in Callers |-> IdleCaller]
    /\ lastRun = Null
    /\ detRuns = 0

NextNeg == \E c \in Callers : CallGetEncoderConfig(c)

SpecNeg == InitNeg /\ [][NextNeg]_vars

\* ---- the encoder ids the documentation accepts for -e, --encoder ----
\* README.md: auto, nvenc, amf, qsv, x264, x265; the GUI README: auto, nvenc,
\* amf, qsv, cpu
DocumentedIds == RequestIds \cup {"cpu"}

InitDoc ==
    /\ ParIdle
    /\ ProcIdle
    /\ SessionIdle
    /\ ProbeIdle
    /\ SideIdle
    /\ CopyIdle
    /\ ConcIdle
    /\ NormIdle
    /\ CmpIdle
    /\ RunIdle
    /\ PlanIdle
    /\ DateIdle
    /\ encoderCache \in {Some(m) : m \in AvailabilityMaps}
    /\ ffmpegPath = 0
    /\ settingsEncoder \in DocumentedIds
    /\ caller = [c \in Callers |-> IdleCaller]
    /\ lastRun = Null
    /\ detRuns = 0

SpecDoc == InitDoc /\ [][NextNeg]_vars

\* ---- detection with the outcomes of the two exec calls ----
\* the callback of exec(..., (error, stdout, stderr) => ..): whether error is
\* set (by a failed command or by the timeout that killed it), and what
\* stderr || stdout || '' holds: nothing, text that does not name the
\* encoder, text that names it
ExecErrors == {"none", "failed", "timeout"}
ExecOutputs == {"empty", "without", "with"}
ExecOutcomes == [error : ExecErrors, output : ExecOutputs]

\* runFFmpeg: resolve(stderr || stdout || ''), whatever error is
RunFFmpeg(outcome) == outcome.output

\* isEncoderAvailable: regex.test(output)
IsEncoderAvailable(output) == output = "with"

TestEncoderIgnoresError(error) == TRUE

\* testEncoder: resolve(!error)
TestEncoder(error) == error = "none"

InitFail ==
    /\ ParIdle
    /\ ProcIdle
    /\ SessionIdle
    /\ probes = [c \in Callers |-> NoProbe]
    /\ SideIdle
    /\ CopyIdle
    /\ ConcIdle
    /\ NormIdle
    /\ CmpIdle
    /\ RunIdle
    /\ PlanIdle
    /\ DateIdle
    /\ encoderCache = Null
    /\ ffmpegPath = 0
    /\ settingsEncoder \in RequestIds
    /\ caller = [c \in Callers |-> IdleCaller]
    /\ lastRun = Null
    /\ detRuns = 0

\* getEncoderConfig(settings.encoder) called while no detection is on its way
CallNegotiation(c) ==
    /\ Detecting = {}
    /\ CallGetEncoderConfig(c)

\* the exec callback of the encoder listing runs
ListingSettles(c, outcome) ==
    /\ caller[c].await = "list"
    /\ LET e == HwOrder[caller[c].idx]
           isListed == IsEncoderAvailable(RunFFmpeg(outcome))
           cl == [caller[c] EXCEPT !.listed[e] = isListed]
       IN IF SmokeTestNeeded(isListed)
          THEN /\ caller' = [caller EXCEPT ![c] = [cl EXCEPT !.await = "test"]]
               /\ UNCHANGED <<encoderCache, lastRun>>
          ELSE Advance(c, cl)
    /\ probes' = [probes EXCEPT ![c].listing[HwOrder[caller[c].idx]] = outcome]
    /\ UNCHANGED <<ffmpegPath, settingsEncoder, detRuns>>
    /\ UNCHANGED notEncProbe

\* the exec callback of the smoke test runs
SmokeTestSettles(c, error) ==
    /\ caller[c].await = "test"
    /\ LET e == HwOrder[caller[c].idx]
           passed == TestEncoder(error)
           cl == [caller[c] EXCEPT !.tested[e] = TRUE, !.passed[e] = passed,
                                   !.results = AfterSmokeTest(@, e, passed)]
       IN Advance(c, cl)
    /\ probes' = [probes EXCEPT ![c].smoke[HwOrder[caller[c].idx]] = error]
    /\ UNCHANGED <<ffmpegPath, settingsEncoder, detRuns>>
    /\ UNCHANGED notEncProbe

NextFail ==
    \/ \E c \in Callers : CallNegotiation(c)
    \/ \E c \in Callers, outcome \in ExecOutcomes : ListingSettles(c, outcome)
    \/ \E c \in Callers, error \in ExecErrors : SmokeTestSettles(c, error)

SpecFail == InitFail /\ [][NextFail]_vars

\* ---- detections that a path override overtakes ----
InitStale ==
    /\ ParIdle
    /\ ProcIdle
    /\ SessionIdle
    /\ SideIdle
    /\ CopyIdle
    /\ ConcIdle
    /\ NormIdle
    /\ CmpIdle
    /\ RunIdle
    /\ PlanIdle
    /\ DateIdle
    /\ EncLoaded
    /\ probes = [c \in Callers |-> NoProbe]

\* detectAvailableEncoders() called on its own; a call that enters the
\* detection procedure does so under the current ffmpegPath
DetectCalled(c) ==
    /\ NextToCall(c)
    /\ IF CacheHit(FALSE)
       THEN /\ caller' = [caller EXCEPT ![c] = Returned(encoderCache, Null)]
            /\ UNCHANGED <<detRuns, probes>>
       ELSE /\ Cardinality(Detecting) < MaxOverlap
            /\ caller' = [caller EXCEPT ![c] = StartDetection("plain")]
            /\ detRuns' = detRuns + 1
            /\ probes' = [probes EXCEPT ![c].path = ffmpegPath]
    /\ UNCHANGED <<encoderCache, ffmpegPath, settingsEncoder, lastRun>>
    /\ UNCHANGED notEncProbe

NextStale ==
    \/ \E c \in Callers : DetectCalled(c)
    \/ \E c \in Callers, b \in BOOLEAN : ListingReturns(c, b)
    \/ \E c \in Callers, b \in BOOLEAN : SmokeTestReturns(c, b)
    \/ SetFFmpegPath

SpecStale == InitStale /\ [][NextStale]_vars

\* ========================================================================
\* The two compressors: src/src/imageCompressor.js, src/src/videoCompressor.js
\* ========================================================================
\* a sample of IMAGE_EXTENSIONS and VIDEO_EXTENSIONS (utils.js:6-7), lower case
ImageExts == {"jpg", "jpeg", "png", "webp", "heic"}
VideoExts == {"mp4", "mov", "mkv"}
\* --image-format: webp (default), jpeg, avif
ImageFormats == {"webp", "jpeg", "avif"}

NormalizeKeepsWebFormats(ext, imageFormat) ==
    IF ext \in {"webp", "jpeg"} THEN ext
    ELSE IF ext \in ImageExts THEN imageFormat
    ELSE IF ext \in VideoExts THEN "mp4"
    ELSE ext

\* normalizeOutputExtension: the extension of the path it returns
NormalizeOutputExtension(ext, imageFormat) ==
    IF ext \in ImageExts THEN imageFormat
    ELSE IF ext \in VideoExts THEN "mp4"
    ELSE ext

\* the file format an extension names: .jpg and .jpeg are both JPEG
FormatOf(ext) == IF ext = "jpg" THEN "jpeg" ELSE ext

\* const isConvertingFormat = inputExt !== targetFormat   (imageCompressor.js:199)
\* const isConvertingFormat = inputExt !== outputExt      (videoCompressor.js:95)
IsConvertingFormat(inputExt, outputExt) == inputExt # outputExt

\* if (compressedSize > originalSize && !isConvertingFormat)
UseOriginal(compressedSize, originalSize, inputExt, outputExt) ==
    compressedSize > originalSize /\ ~IsConvertingFormat(inputExt, outputExt)

Call(fn, inputExt, outputExt, originalSize) ==
    [NoCall EXCEPT !.fn = fn, !.inputExt = inputExt, !.outputExt = outputExt,
                   !.originalSize = originalSize, !.pc = "called"]

InitCmp ==
    /\ ParIdle
    /\ ProcIdle
    /\ SessionIdle
    /\ ProbeIdle
    /\ SideIdle
    /\ CopyIdle
    /\ ConcIdle
    /\ NormIdle
    /\ EncLoaded
    /\ RunIdle
    /\ PlanIdle
    /\ DateIdle
    /\ \E size \in 1..MaxSize :
          \/ \E ext \in ImageExts, fmt \in ImageFormats :
                cmp = Call("image", ext, NormalizeOutputExtension(ext, fmt), size)
          \/ \E ext \in VideoExts :
                cmp = Call("video", ext, NormalizeOutputExtension(ext, "webp"), size)

\* compressImage up to its first wait: convertHeicToJpeg for HEIC/HEIF input,
\* pipeline.toFile(outputPath) otherwise
CompressImage ==
    /\ cmp.fn = "image" /\ cmp.pc = "called"
    /\ cmp' = [cmp EXCEPT !.pc = IF cmp.inputExt \in {"heic", "heif"}
                                 THEN "heic" ELSE "toFile"]
    /\ UNCHANGED notCmp

\* convertHeicToJpeg resolves: lines 118-131, the converted file is kept
HeicConverted(size) ==
    /\ cmp.pc = "heic"
    /\ cmp' = [cmp EXCEPT !.pc = "returned", !.encodedSize = size,
                          !.outBytes = "encoded", !.compressedSize = size]
    /\ UNCHANGED notCmp

\* convertHeicToJpeg throws: compressImage rejects, nothing was written
HeicFailed ==
    /\ cmp.pc = "heic"
    /\ cmp' = [cmp EXCEPT !.pc = "rejected"]
    /\ UNCHANGED notCmp

\* pipeline.toFile resolves: lines 195-222. A copyFileSync that throws is
\* caught by the catch of line 223, whose own copy then throws as well.
ToFileResolved(size, copyOk) ==
    /\ cmp.pc = "toFile"
    /\ IF UseOriginal(size, cmp.originalSize, cmp.inputExt, cmp.outputExt)
       THEN IF copyOk
            THEN cmp' = [cmp EXCEPT !.pc = "returned", !.encodedSize = size,
                                    !.outBytes = "source",
                                    !.compressedSize = cmp.originalSize]
            ELSE cmp' = [cmp EXCEPT !.pc = "rejected", !.encodedSize = size,
                                    !.outBytes = "encoded"]
       ELSE cmp' = [cmp EXCEPT !.pc = "returned", !.encodedSize = size,
                               !.outBytes = "encoded", !.compressedSize = size]
    /\ UNCHANGED notCmp

\* pipeline.toFile rejects: lines 223-240, the original is copied and the
\* call still returns success
ToFileRejected(copyOk) ==
    /\ cmp.pc = "toFile"
    /\ IF copyOk
       THEN cmp' = [cmp EXCEPT !.pc = "returned", !.outBytes = "source",
                               !.compressedSize = cmp.originalSize]
       ELSE cmp' = [cmp EXCEPT !.pc = "rejected"]
    /\ UNCHANGED notCmp

\* compressVideo up to .save(outputPath): the encoder is negotiated, the
\* codec command is started
CompressVideo ==
    /\ cmp.fn = "video" /\ cmp.pc = "called"
    /\ cmp' = [cmp EXCEPT !.pc = "ffmpeg"]
    /\ UNCHANGED notCmp

\* .on('end'): lines 89-124; a failing copy is logged and swallowed
FfmpegEnd(size, copyOk) ==
    /\ cmp.pc = "ffmpeg"
    /\ IF UseOriginal(size, cmp.originalSize, cmp.inputExt, cmp.outputExt) /\ copyOk
       THEN cmp' = [cmp EXCEPT !.pc = "returned", !.encodedSize = size,
                               !.outBytes = "source",
                               !.compressedSize = cmp.originalSize]
       ELSE cmp' = [cmp EXCEPT !.pc = "returned", !.encodedSize = size,
                               !.outBytes = "encoded", !.compressedSize = size]
    /\ UNCHANGED notCmp

\* .on('error'): compressVideo rejects; the codec may have left a partial file
FfmpegError(partial) ==
    /\ cmp.pc = "ffmpeg"
    /\ cmp' = [cmp EXCEPT !.pc = "rejected",
                          !.outBytes = IF partial THEN "partial" ELSE "none"]
    /\ UNCHANGED notCmp

NextCmp ==
    \/ CompressImage
    \/ \E size \in 1..MaxSize : HeicConverted(size)
    \/ HeicFailed
    \/ \E size \in 1..MaxSize, copyOk \in BOOLEAN : ToFileResolved(size, copyOk)
    \/ \E copyOk \in BOOLEAN : ToFileRejected(copyOk)
    \/ CompressVideo
    \/ \E size \in 1..MaxSize, copyOk \in BOOLEAN : FfmpegEnd(size, copyOk)
    \/ \E partial \in BOOLEAN : FfmpegError(partial)

SpecCmp == InitCmp /\ [][NextCmp]_vars

\* ------------------------------------------------------------------------
\* Batch runs: the GUI server's processFiles (server.js) and the CLI's
\* processDirectory (index.js), each over its worker pool
\* ------------------------------------------------------------------------
CpuCounts == {4}

Items == 1..MaxFiles

\* an item of the batch: its kind, the unsuffixed output name its capture
\* date and location plan to (items of one base collide), its size on disk
FileShapes == [type : Kinds, base : 1..MaxBases, size : {MaxSize}]

\* the batches, up to the naming of the bases: an item's base is one of an
\* earlier item or the next unused one
FileLists ==
    {fl \in UNION {[1..n -> FileShapes] : n \in 1..MaxFiles} :
        \A i \in 1..Len(fl) :
            \/ fl[i].base = 1
            \/ \E j \in 1..(i - 1) : fl[j].base = fl[i].base - 1}

ItemsOf(fl, kind) ==
    SelectSeq([i \in 1..Len(fl) |-> i], LAMBDA i : fl[i].type = kind)

\* what a transcode that succeeded reports as compressedSize
CompressedSizes(f) == {1}

QueuedTask ==
    [pc |-> "queued", path |-> NoPath, copyPath |-> NoPath, res |-> "none",
     started |-> FALSE, launches |-> 0, events |-> << >>]

EmitTwice(tk, i, event) == [tk EXCEPT ![i].events = @ \o <<event, event>>]

\* sendSSE(event, { index, .. }): the events of item i, in the order sent
Emit(tk, i, event) == [tk EXCEPT ![i].events = Append(@, event)]

Exists(fs, p) == \E e \in fs : e.path = p

Unlink(fs, p) == {e \in fs : e.path # p}

\* a file is created or overwritten at p
WriteFile(fs, p, src, form) ==
    Unlink(fs, p) \cup {[path |-> p, src |-> src, form |-> form]}

\* the counter loop: the first suffixed name that does not exist on disk
RECURSIVE FirstFree(_, _, _)
FirstFree(fs, u, counter) ==
    LET p == [u EXCEPT !.n = counter]
    IN  IF Exists(fs, p) THEN FirstFree(fs, u, counter + 1) ELSE p

\* the planned output path of item f against the disk as it is now
PlanPath(fs, f) ==
    LET u == [kind |-> f.type, base |-> f.base, n |-> 0]
    IN  IF Exists(fs, u) THEN FirstFree(fs, u, 1) ELSE u

\* the parent directory of an item's output exists once some item of the
\* same base got past directory creation
DirExists(tk, fl, i) ==
    \E j \in 1..Len(fl) : fl[j].base = fl[i].base /\ tk[j].started

\* ---- concurrency of the pools ----
ImageConcurrency(cpu) == Max(4, Min(cpu, 12))
VideoConcurrencyQuarter(cpu) == Max(2, Min(6, cpu \div 4))
VideoConcurrency(cpu) == Max(2, Min(6, cpu \div 2))
GetOptimalConcurrency(cpu) == Max(1, Min(cpu \div 2, 8))
CliVideoConcurrencyAsGui(cpu) == Max(2, Min(6, cpu \div 2))
CliVideoConcurrency(cpu) == Max(1, Min(2, cpu \div 4))

\* ---- the pool ----
NewPool(items, concurrency) ==
    [items |-> items, next |-> 1, executing |-> {}, pc |-> "loop",
     conc |-> concurrency, results |-> << >>]

AtCapacityOffByOne(size, concurrency) == size > concurrency
AtCapacity(size, concurrency) == size >= concurrency

\* the for loop, from its current item up to its next wait: the race once
\* the executing set is full, the join after the last item or on cancel
RECURSIVE RunLoop(_, _)
RunLoop(p, cancel) ==
    IF p.next > Len(p.items) \/ cancel
    THEN [p EXCEPT !.pc = "join"]
    ELSE LET q == [p EXCEPT !.next = @ + 1,
                            !.executing = @ \cup {p.items[p.next]},
                            !.results = Append(@, p.items[p.next])]
         IN  IF AtCapacity(Cardinality(q.executing), q.conc)
             THEN [q EXCEPT !.pc = "race"]
             ELSE RunLoop(q, cancel)

JoinReadyEarly(p) == TRUE
JoinReady(p) == p.executing = {}

\* Promise.all(results) resolves once every launched promise has settled
Join(p) == IF p.pc = "join" /\ JoinReady(p) THEN [p EXCEPT !.pc = "done"] ELSE p

StartPool(items, concurrency, cancel) ==
    Join(RunLoop(NewPool(items, concurrency), cancel))

RaceWaitsForAll(p, i) == p.executing \ {i} = {}

\* await Promise.race(executing) is over as soon as one member has settled
RaceOver(p, i) == i \in p.executing

\* the promise of item i settles, its processor having resolved or rejected
\* (res "threw"): either handler takes it out of the executing set and
\* yields an outcome; a pending race resumes the loop, a pending join may
\* resolve
AfterSettleNoCatch(p, i, res, cancel) ==
    IF res = "threw"
    THEN [p EXCEPT !.pc = "rejected"]
    ELSE LET q == [p EXCEPT !.executing = @ \ {i}]
         IN  Join(IF p.pc = "race" /\ RaceOver(p, i)
             THEN RunLoop(q, cancel) ELSE q)

AfterSettle(p, i, res, cancel) ==
    LET q == [p EXCEPT !.executing = @ \ {i}]
    IN  Join(IF p.pc = "race" /\ RaceOver(p, i)
             THEN RunLoop(q, cancel) ELSE q)

\* the processor's synchronous prefix for every item the loop just launched
LaunchAll(tk, from, p, firstPc) ==
    [i \in DOMAIN tk |->
        IF \E k \in from..(p.next - 1) : p.items[k] = i
        THEN [tk[i] EXCEPT !.pc = firstPc, !.launches = @ + 1]
        ELSE tk[i]]

FirstPc(mode) == IF mode = "gui" THEN "date" ELSE "plan"

ConcurrencyOf(mode, kind, cpu) ==
    IF mode = "gui"
    THEN (IF kind = "image" THEN ImageConcurrency(cpu) ELSE VideoConcurrency(cpu))
    ELSE (IF kind = "image" THEN GetOptimalConcurrency(cpu) ELSE CliVideoConcurrency(cpu))

\* the images pool, then the videos pool, then the end of the run; the CLI
\* skips a pool that has no items, which the pool itself would do as well
StartVideos(mode, fl, cpu, tk, cancel) ==
    LET v == StartPool(ItemsOf(fl, "video"), ConcurrencyOf(mode, "video", cpu), cancel)
    IN  [task |-> LaunchAll(tk, 1, v, FirstPc(mode)), pool |-> v,
         phase |-> IF v.pc = "done" THEN "done" ELSE "videos"]

StartImagesNoWait(mode, fl, cpu, tk, cancel) ==
    LET g == StartPool(ItemsOf(fl, "image"), ConcurrencyOf(mode, "image", cpu), cancel)
    IN  StartVideos(mode, fl, cpu, LaunchAll(tk, 1, g, FirstPc(mode)), cancel)

StartImages(mode, fl, cpu, tk, cancel) ==
    LET g == StartPool(ItemsOf(fl, "image"), ConcurrencyOf(mode, "image", cpu), cancel)
        t == LaunchAll(tk, 1, g, FirstPc(mode))
    IN  IF g.pc = "done"
        THEN StartVideos(mode, fl, cpu, t, cancel)
        ELSE [task |-> t, pool |-> g, phase |-> "images"]

\* where the run is after a step; reaching the end emits 'complete' (the
\* Summary Report in the CLI)
RunAt(mode, phase) ==
    [mode |-> mode, phase |-> phase,
     complete |-> IF phase = "done" THEN run.complete + 1 ELSE run.complete]

EndOfRunStaysRunning(cs, phase) == cs

\* compressionState.isRunning = false, once both pools are through
EndOfRun(cs, phase) ==
    [cs EXCEPT !.isRunning = cs.isRunning /\ phase # "done"]

\* item i settles with outcome res; tk, fs, cs, cl are the task table, disk
\* and counters as its processor left them
SettleRun(i, res, tk, fs, cs, cl) ==
    LET p1 == AfterSettle(pool, i, res, cs.shouldCancel)
        t1 == LaunchAll([tk EXCEPT ![i].pc = "done", ![i].res = res],
                        pool.next, p1, FirstPc(run.mode))
        adv == IF p1.pc # "done"
               THEN [task |-> t1, pool |-> p1, phase |-> run.phase]
               ELSE IF run.phase = "images"
                    THEN StartVideos(run.mode, files, cpuCount, t1, cs.shouldCancel)
                    ELSE [task |-> t1, pool |-> p1, phase |-> "done"]
    IN  /\ task' = adv.task
        /\ pool' = adv.pool
        /\ run' = RunAt(run.mode, adv.phase)
        /\ compressionState' = EndOfRun(cs, adv.phase)
        /\ fsys' = fs
        /\ cli' = cl
        /\ UNCHANGED <<cpuCount, files, opts>>

Settle(i, res, tk, fs, cs, cl) ==
    SettleRun(i, res, tk, fs, cs, cl) /\ UNCHANGED notRun

\* ---- GUI server ----
\* POST /api/compress, with processFiles up to its first wait
StartCompress(fl, cpu, renameOnly) ==
    /\ run.mode = "none"
    /\ ~compressionState.isRunning
    /\ LET st == StartImages("gui", fl, cpu, [i \in 1..Len(fl) |-> QueuedTask], FALSE)
       IN  /\ run' = RunAt("gui", st.phase)
           /\ task' = st.task
           /\ pool' = st.pool
           /\ compressionState' =
                  EndOfRun([IdleState EXCEPT !.isRunning = TRUE, !.total = Len(fl)],
                           st.phase)
    /\ files' = fl
    /\ cpuCount' = cpu
    /\ opts' = [renameOnly |-> renameOnly]
    /\ UNCHANGED <<fsys, cli, notRun>>

\* POST /api/cancel
Cancel ==
    /\ run.mode = "gui"
    /\ compressionState' = [compressionState EXCEPT !.shouldCancel = TRUE]
    /\ UNCHANGED <<run, cpuCount, files, opts, task, fsys, pool, cli, notRun>>

ProcessItemDropsOriginal(cs, success, result) ==
    IF success
    THEN [cs EXCEPT !.processed = @ + 1, !.success = @ + 1,
                    !.totalCompressed = @ + result.compressedSize]
    ELSE [cs EXCEPT !.processed = @ + 1, !.failed = @ + 1]

ProcessItemSkipsFailures(cs, success, result) ==
    IF success
    THEN [cs EXCEPT !.processed = @ + 1, !.success = @ + 1,
                    !.totalOriginal = @ + result.originalSize,
                    !.totalCompressed = @ + result.compressedSize]
    ELSE [cs EXCEPT !.failed = @ + 1]

\* processItem's accounting of what processSingleFile returned; the
\* overall-progress event it then sends carries the new processed count
ProcessItem(cs, success, result) ==
    IF success
    THEN [cs EXCEPT !.processed = @ + 1, !.success = @ + 1,
                    !.totalOriginal = @ + result.originalSize,
                    !.totalCompressed = @ + result.compressedSize]
    ELSE [cs EXCEPT !.processed = @ + 1, !.failed = @ + 1]

\* processSingleFile after getCaptureDate: name, path, counter loop, parent
\* directory, file-start, and the copy of rename-only mode
DateResolved(i, mkdirOk) ==
    /\ run.mode = "gui"
    /\ i \in DOMAIN task
    /\ task[i].pc = "date"
    /\ mkdirOk \/ ~DirExists(task, files, i)
    /\ LET path == PlanPath(fsys, files[i])
           size == files[i].size
           t1 == [task EXCEPT ![i].path = path]
           t2 == Emit([t1 EXCEPT ![i].started = TRUE], i, "file-start")
       IN  IF ~mkdirOk
           THEN Settle(i, "threw", t1, fsys, compressionState, cli)
           ELSE IF opts.renameOnly
                THEN Settle(i, "ok", Emit(t2, i, "file-complete"),
                            WriteFile(fsys, path, i, "source"),
                            ProcessItem(compressionState, TRUE,
                                [originalSize |-> size, compressedSize |-> size]),
                            cli)
                ELSE /\ task' = [t2 EXCEPT ![i].pc = "encoding"]
                     /\ UNCHANGED <<run, cpuCount, files, opts, fsys, pool,
                                    compressionState, cli, notRun>>

\* the transcoder opens its output file; a video then reports its progress
OutputCreated(i) ==
    /\ run.mode # "none"
    /\ i \in DOMAIN task
    /\ task[i].pc = "encoding"
    /\ task' = LET t1 == [task EXCEPT ![i].pc = "writing"]
               IN  IF run.mode = "gui" /\ files[i].type = "video"
                   THEN Emit(t1, i, "file-progress")
                   ELSE t1
    /\ fsys' = WriteFile(fsys, task[i].path, i, "partial")
    /\ UNCHANGED <<run, cpuCount, files, opts, pool, compressionState, cli, notRun>>

\* compressImage / compressVideo resolved: file-complete, { success: true }
TranscodeSucceeded(i, compressedSize) ==
    /\ run.mode = "gui"
    /\ i \in DOMAIN task
    /\ task[i].pc = "writing"
    /\ compressedSize \in CompressedSizes(files[i])
    /\ Settle(i, "ok", Emit(task, i, "file-complete"),
              WriteFile(fsys, task[i].path, i, "encoded"),
              ProcessItem(compressionState, TRUE,
                  [originalSize |-> files[i].size, compressedSize |-> compressedSize]),
              cli)

\* what the catch block leaves at the planned path
AfterFailure(fs, path, i, type) ==
    IF type = "video"
    THEN (IF Exists(fs, path) THEN Unlink(fs, path) ELSE fs)
    ELSE WriteFile(fs, path, i, "source")

\* compressImage / compressVideo rejected: the catch block, file-error
TranscodeFailed(i) ==
    /\ run.mode = "gui"
    /\ i \in DOMAIN task
    /\ task[i].pc \in {"encoding", "writing"}
    /\ Settle(i, "fail", Emit(task, i, "file-error"),
              AfterFailure(fsys, task[i].path, i, files[i].type),
              ProcessItem(compressionState, FALSE, << >>),
              cli)

\* ---- CLI ----
\* processDirectory up to its first wait: the scan, the counters, the images pool
ProcessDirectory(fl, cpu, renameOnly) ==
    /\ run.mode = "none"
    /\ LET st == StartImages("cli", fl, cpu, [i \in 1..Len(fl) |-> QueuedTask], FALSE)
       IN  /\ run' = RunAt("cli", st.phase)
           /\ task' = st.task
           /\ pool' = st.pool
    /\ files' = fl
    /\ cpuCount' = cpu
    /\ opts' = [renameOnly |-> renameOnly]
    /\ cli' = CliZero
    /\ UNCHANGED <<fsys, compressionState, notRun>>

\* totalOriginal += ..; totalCompressed += ..; successCount++
CountSuccess(cl, originalSize, compressedSize) ==
    [cl EXCEPT !.totalOriginal = @ + originalSize,
               !.totalCompressed = @ + compressedSize,
               !.successCount = @ + 1]

\* the processor after its first determineTargetFile: the copy of rename-only
\* mode, or the start of the transcode
Planned(i) ==
    /\ run.mode = "cli"
    /\ i \in DOMAIN task
    /\ task[i].pc = "plan"
    /\ LET path == PlanPath(fsys, files[i])
           size == files[i].size
           t1 == [task EXCEPT ![i].path = path, ![i].started = TRUE]
       IN  IF opts.renameOnly
           THEN Settle(i, "ok", t1,
                       WriteFile(fsys, path, i, "source"),
                       compressionState, CountSuccess(cli, size, size))
           ELSE /\ task' = [t1 EXCEPT ![i].pc = "encoding"]
                /\ UNCHANGED <<run, cpuCount, files, opts, fsys, pool,
                               compressionState, cli, notRun>>

\* compressImage / compressVideo resolved
CliTranscodeSucceeded(i, compressedSize) ==
    /\ run.mode = "cli"
    /\ i \in DOMAIN task
    /\ task[i].pc = "writing"
    /\ compressedSize \in CompressedSizes(files[i])
    /\ Settle(i, "ok", task,
              WriteFile(fsys, task[i].path, i, "encoded"),
              compressionState,
              CountSuccess(cli, files[i].size, compressedSize))

\* compressImage / compressVideo rejected: the catch block up to its
\* await determineTargetFile
CliTranscodeFailed(i) ==
    /\ run.mode = "cli"
    /\ i \in DOMAIN task
    /\ task[i].pc \in {"encoding", "writing"}
    /\ task' = [task EXCEPT ![i].pc = "replan"]
    /\ UNCHANGED <<run, cpuCount, files, opts, fsys, pool, compressionState, cli, notRun>>

\* the catch block after determineTargetFile: copy the original, count it
Replanned(i) ==
    /\ run.mode = "cli"
    /\ i \in DOMAIN task
    /\ task[i].pc = "replan"
    /\ LET path == PlanPath(fsys, files[i])
           size == files[i].size
       IN  Settle(i, "copied", [task EXCEPT ![i].copyPath = path],
                  WriteFile(fsys, path, i, "source"),
                  compressionState, CountSuccess(cli, size, size))

Init ==
    /\ ParIdle
    /\ ProcIdle
    /\ SessionIdle
    /\ ProbeIdle
    /\ SideIdle
    /\ CopyIdle
    /\ ConcIdle
    /\ NormIdle
    /\ EncLoaded
    /\ CmpIdle
    /\ RunIdle
    /\ PlanIdle
    /\ DateIdle

Next ==
    \/ \E fl \in FileLists, cpu \in CpuCounts, renameOnly \in BOOLEAN :
           StartCompress(fl, cpu, renameOnly)
    \/ Cancel
    \/ \E i \in Items, mkdirOk \in BOOLEAN : DateResolved(i, mkdirOk)
    \/ \E i \in Items : OutputCreated(i)
    \/ \E i \in Items, size \in 1..MaxSize : TranscodeSucceeded(i, size)
    \/ \E i \in Items : TranscodeFailed(i)
    \/ \E fl \in FileLists, cpu \in CpuCounts, renameOnly \in BOOLEAN :
           ProcessDirectory(fl, cpu, renameOnly)
    \/ \E i \in Items : Planned(i)
    \/ \E i \in Items, size \in 1..MaxSize : CliTranscodeSucceeded(i, size)
    \/ \E i \in Items : CliTranscodeFailed(i)
    \/ \E i \in Items : Replanned(i)

Spec == Init /\ [][Next]_vars

\* ---- the CLI's set of running commands ----
\* a directory run of the CLI with its activeProcesses set and the SIGINT
\* handler; the steps that do not touch the set are the ones above
InitProc ==
    /\ ParIdle
    /\ SessionIdle
    /\ ProbeIdle
    /\ SideIdle
    /\ CopyIdle
    /\ ConcIdle
    /\ NormIdle
    /\ EncLoaded
    /\ CmpIdle
    /\ RunIdle
    /\ PlanIdle
    /\ DateIdle
    /\ activeProcesses = {}

\* onStart: (cmd) => { currentCmd = cmd; activeProcesses.add(cmd); }
OnStart(active, i) == active \cup {i}

\* if (currentCmd) activeProcesses.delete(currentCmd), reached only when
\* compressVideo resolved
AfterCompressVideo(active, i) == active \ {i}

\* the transcoder is spawned and opens its output file; compressVideo hands
\* the spawned command of a video to onStart, compressImage has no command
CliOutputCreated(i) ==
    /\ run.mode = "cli"
    /\ i \in DOMAIN task
    /\ task[i].pc = "encoding"
    /\ task' = [task EXCEPT ![i].pc = "writing"]
    /\ fsys' = WriteFile(fsys, task[i].path, i, "partial")
    /\ activeProcesses' = IF files[i].type = "video"
                          THEN OnStart(activeProcesses, i)
                          ELSE activeProcesses
    /\ UNCHANGED <<run, cpuCount, files, opts, pool, compressionState, cli, notRunProc>>

\* compressImage / compressVideo resolved: the rest of the try block
CliSucceeded(i, compressedSize) ==
    /\ run.mode = "cli"
    /\ i \in DOMAIN task
    /\ task[i].pc = "writing"
    /\ compressedSize \in CompressedSizes(files[i])
    /\ SettleRun(i, "ok", task,
                 WriteFile(fsys, task[i].path, i, "encoded"),
                 compressionState,
                 CountSuccess(cli, files[i].size, compressedSize))
    /\ activeProcesses' = IF files[i].type = "video"
                          THEN AfterCompressVideo(activeProcesses, i)
                          ELSE activeProcesses
    /\ UNCHANGED notRunProc

\* process.on('SIGINT'): cleanup() kills every member of the set and clears
\* it, then process.exit(0) ends the run where it stands
Cleanup ==
    /\ run.mode = "cli"
    /\ run.phase # "done"
    /\ activeProcesses' = {}
    /\ run' = [run EXCEPT !.mode = "exit"]
    /\ UNCHANGED <<cpuCount, files, opts, task, fsys, pool, compressionState, cli, notRunProc>>

NextProc ==
    \/ \E fl \in FileLists, cpu \in CpuCounts, renameOnly \in BOOLEAN :
           ProcessDirectory(fl, cpu, renameOnly)
    \/ \E i \in Items : Planned(i)
    \/ \E i \in Items : CliOutputCreated(i)
    \/ \E i \in Items, size \in 1..MaxSize : CliSucceeded(i, size)
    \/ \E i \in Items : CliTranscodeFailed(i)
    \/ \E i \in Items : Replanned(i)
    \/ Cleanup

SpecProc == InitProc /\ [][NextProc]_vars

\* ---- parallelProcess on its own ----
\* the lists a call is given: distinct items in any order
ItemLists ==
    {l \in UNION {[1..n -> Items] : n \in 0..MaxFiles} :
        \A a, b \in DOMAIN l : l[a] = l[b] => a = b}

\* what a processor that resolves hands back for its item
ProcessorResult(it) == [result |-> it]

\* .then(result => { executing.delete(promise); return result; })
OnFulfilled(result) == result

\* .catch(error => { executing.delete(promise); return { error, item }; })
Catch(error, it) == [error |-> error, item |-> it]

\* the value promise p took, from the log of the settlements
ValueOf(log, p) == (CHOOSE e \in {log[j] : j \in DOMAIN log} : e.promise = p).value

PromiseAllInSettlementOrder(results, log) == [k \in DOMAIN log |-> log[k].value]

\* Promise.all(results): the value of each promise, at the promise's index
PromiseAll(results, log) == [k \in DOMAIN results |-> ValueOf(log, results[k])]

\* parallelProcess as far as it got: the array is returned once the loop
\* is through and every promise pushed has settled
ParAt(p, ended, log) ==
    [pool |-> p, ended |-> ended, log |-> log,
     resolved |-> p.pc = "done",
     returned |-> IF p.pc = "done" THEN PromiseAll(p.results, log) ELSE << >>]

InitPar ==
    /\ ProcIdle
    /\ SessionIdle
    /\ ProbeIdle
    /\ SideIdle
    /\ CopyIdle
    /\ ConcIdle
    /\ NormIdle
    /\ EncLoaded
    /\ CmpIdle
    /\ RunIdle
    /\ PlanIdle
    /\ DateIdle
    /\ par = [pool |-> NoPool, ended |-> << >>, log |-> << >>,
              resolved |-> FALSE, returned |-> << >>]

\* parallelProcess(items, processor, concurrency) up to its first wait
ParallelProcess(items, concurrency) ==
    /\ par.pool.pc = "idle"
    /\ par' = ParAt(StartPool(items, concurrency, FALSE),
                    [i \in Items |-> "pending"], << >>)
    /\ UNCHANGED notPar

\* processor(item) resolved: the then handler, and whatever of the loop and
\* of Promise.all it lets run
ProcessorResolved(i) ==
    /\ i \in par.pool.executing
    /\ par' = ParAt(AfterSettle(par.pool, i, "ok", FALSE),
                    [par.ended EXCEPT ![i] = "resolved"],
                    Append(par.log, [promise |-> i,
                                     value |-> OnFulfilled(ProcessorResult(i))]))
    /\ UNCHANGED notPar

\* processor(item) rejected: the catch handler, likewise
ProcessorRejected(i) ==
    /\ i \in par.pool.executing
    /\ par' = ParAt(AfterSettle(par.pool, i, "threw", FALSE),
                    [par.ended EXCEPT ![i] = "rejected"],
                    Append(par.log, [promise |-> i,
                                     value |-> Catch("thrown", i)]))
    /\ UNCHANGED notPar

NextPar ==
    \/ \E items \in ItemLists, concurrency \in 1..MaxFiles :
           ParallelProcess(items, concurrency)
    \/ \E i \in Items : ProcessorResolved(i)
    \/ \E i \in Items : ProcessorRejected(i)

SpecPar == InitPar /\ [][NextPar]_vars

\* ------------------------------------------------------------------------
\* File names: formatDateForFilename (utils.js) and the three planners of
\* an output path (index.js getFinalOutputPath, determineTargetFile;
\* server.js processSingleFile)
\* ------------------------------------------------------------------------
\* a Date: the seconds since the epoch it holds, or an Invalid Date
DateOf(time) == [valid |-> TRUE, time |-> time]
InvalidDate == [valid |-> FALSE, time |-> 0]

\* getUTCFullYear .. getUTCSeconds of a valid Date not before 1970
UTCFields(time) ==
    LET days == time \div 86400
        secs == time % 86400
        z == days + 719468
        era == z \div 146097
        doe == z - era * 146097
        yoe == (doe - doe \div 1460 + doe \div 36524 - doe \div 146096) \div 365
        doy == doe - (365 * yoe + yoe \div 4 - yoe \div 100)
        mp == (5 * doy + 2) \div 153
        m == IF mp < 10 THEN mp + 3 ELSE mp - 9
    IN  [year |-> yoe + era * 400 + (IF m <= 2 THEN 1 ELSE 0),
         month |-> m,
         day |-> doy - (153 * mp + 2) \div 5 + 1,
         hours |-> secs \div 3600,
         minutes |-> (secs % 3600) \div 60,
         seconds |-> secs % 60]

\* a file name without directory, counter and extension: the literal
\* 'unknown', the yyyymmdd-hhmmss token of some calendar fields, or the base
\* name of the input file
UnknownName == [kind |-> "unknown", fields |-> NoFields]
TokenName(f) == [kind |-> "date", fields |-> f]
OriginalName == [kind |-> "original", fields |-> NoFields]

\* formatDateForFilename(date), date null or a Date
FormatDateForFilename(date) ==
    IF date = Null \/ ~date[1].valid
    THEN UnknownName
    ELSE TokenName(UTCFields(date[1].time))

RECURSIVE CounterLoopByTwo(_, _, _)
CounterLoopByTwo(disk, name, counter) ==
    IF [name |-> name, n |-> counter] \in disk
    THEN CounterLoopByTwo(disk, name, counter + 2)
    ELSE [name |-> name, n |-> counter]

\* while (fs.existsSync(finalPath)) { finalPath = name(counter); counter++ }
\* entered with the unsuffixed name as counter 0
RECURSIVE CounterLoop(_, _, _)
CounterLoop(disk, name, counter) ==
    IF [name |-> name, n |-> counter] \in disk
    THEN CounterLoop(disk, name, counter + 1)
    ELSE [name |-> name, n |-> counter]

\* index.js getFinalOutputPath(inputPath, options, defaultOutputPath), date
\* what its getCaptureDate call returns
GetFinalOutputPath(rename, date, disk) ==
    IF ~rename THEN [name |-> OriginalName, n |-> 0]
    ELSE IF date = Null THEN [name |-> OriginalName, n |-> 0]
    ELSE CounterLoop(disk, FormatDateForFilename(date), 0)

\* index.js determineTargetFile(filePath), within one target directory
DetermineTargetFile(rename, date, disk) ==
    IF rename
    THEN GetFinalOutputPath(rename, date, disk)
    ELSE CounterLoop(disk, OriginalName, 0)

\* server.js processSingleFile, lines 189-225
GuiOutputPath(captureDate, disk) ==
    LET newFilename == IF captureDate # Null
                       THEN FormatDateForFilename(captureDate)
                       ELSE OriginalName
    IN  IF [name |-> newFilename, n |-> 0] \in disk
        THEN CounterLoop(disk, newFilename, 1)
        ELSE [name |-> newFilename, n |-> 0]

\* the instant of the examples
SampleTimestamp == 1610549531

Planners == {"getFinalOutputPath", "determineTargetFile", "processSingleFile"}

\* what getCaptureDate handed to the planner
PlanDates == {Null, Some(InvalidDate), Some(DateOf(SampleTimestamp))}

PlanNames == {OriginalName, UnknownName, FormatDateForFilename(Some(DateOf(SampleTimestamp)))}

\* the names the target directory may hold already
DiskNames == [name : PlanNames, n : 0..MaxCounter]

InitPlan ==
    /\ ParIdle
    /\ ProcIdle
    /\ SessionIdle
    /\ ProbeIdle
    /\ SideIdle
    /\ CopyIdle
    /\ ConcIdle
    /\ NormIdle
    /\ EncLoaded
    /\ CmpIdle
    /\ RunIdle
    /\ DateIdle
    /\ \E planner \in Planners, rename \in BOOLEAN, date \in PlanDates,
          disk \in SUBSET DiskNames :
           plan = [NoPlan EXCEPT !.pc = "called", !.planner = planner,
                                 !.rename = rename, !.date = date, !.disk = disk]

\* the single-file commands: getFinalOutputPath(inputPath, options, ...)
SingleFilePlanned ==
    /\ plan.pc = "called"
    /\ plan.planner = "getFinalOutputPath"
    /\ plan' = [plan EXCEPT !.pc = "returned",
                            !.path = GetFinalOutputPath(plan.rename, plan.date, plan.disk)]
    /\ UNCHANGED notPlan

\* processDirectory: determineTargetFile(filePath)
DirectoryFilePlanned ==
    /\ plan.pc = "called"
    /\ plan.planner = "determineTargetFile"
    /\ plan' = [plan EXCEPT !.pc = "returned",
                            !.path = DetermineTargetFile(plan.rename, plan.date, plan.disk)]
    /\ UNCHANGED notPlan

\* the GUI server: the path processSingleFile plans, which has no rename option
GuiFilePlanned ==
    /\ plan.pc = "called"
    /\ plan.planner = "processSingleFile"
    /\ plan' = [plan EXCEPT !.pc = "returned",
                            !.path = GuiOutputPath(plan.date, plan.disk)]
    /\ UNCHANGED notPlan

NextPlan ==
    \/ SingleFilePlanned
    \/ DirectoryFilePlanned
    \/ GuiFilePlanned

SpecPlan == InitPlan /\ [][NextPlan]_vars

\* ---- GUI runs in which every launched task settles ----
\* the batches of the runs followed to their end
LiveLists == {fl \in FileLists : Len(fl) <= MaxLiveFiles}

\* some collaborator of some in-flight task answers: the capture date, the
\* output file, the end of a transcode
TaskStep ==
    \E i \in Items :
        \/ \E mkdirOk \in BOOLEAN : DateResolved(i, mkdirOk)
        \/ OutputCreated(i)
        \/ \E size \in 1..MaxSize : TranscodeSucceeded(i, size)
        \/ TranscodeFailed(i)

NextLive ==
    \/ \E fl \in LiveLists, cpu \in CpuCounts, renameOnly \in BOOLEAN :
           StartCompress(fl, cpu, renameOnly)
    \/ Cancel
    \/ \E i \in Items, mkdirOk \in BOOLEAN : DateResolved(i, mkdirOk)
    \/ \E i \in Items : OutputCreated(i)
    \/ \E i \in Items, size \in 1..MaxSize : TranscodeSucceeded(i, size)
    \/ \E i \in Items : TranscodeFailed(i)

SpecLive == Init /\ [][NextLive]_vars /\ WF_vars(TaskStep)

\* ---- GUI sessions: several POST /api/compress and POST /api/cancel ----
AlreadyRunningNever(cs) == FALSE

\* if (compressionState.isRunning) return res.status(400)...
AlreadyRunning(cs) == cs.isRunning

AcceptedStateKeepsCancel(cs, total) ==
    [IdleState EXCEPT !.isRunning = TRUE, !.total = total,
                      !.shouldCancel = cs.shouldCancel]

\* compressionState = { isRunning: true, shouldCancel: false, processed: 0,
\* total: files.length, results: { success: 0, failed: 0, .. } }
AcceptedState(cs, total) ==
    [IdleState EXCEPT !.isRunning = TRUE, !.total = total]

InitSession ==
    /\ ParIdle
    /\ ProcIdle
    /\ ProbeIdle
    /\ SideIdle
    /\ CopyIdle
    /\ ConcIdle
    /\ NormIdle
    /\ EncLoaded
    /\ CmpIdle
    /\ RunIdle
    /\ PlanIdle
    /\ DateIdle
    /\ session = NoSession

\* POST /api/compress that finds a run active: status 400, whatever the
\* request holds
CompressRejected ==
    /\ AlreadyRunning(compressionState)
    /\ session' = [session EXCEPT !.response = "rejected"]
    /\ UNCHANGED <<varsRun, notRunSession>>

\* POST /api/compress that finds no run active, with processFiles up to its
\* first wait; every request names an output folder of its own, empty so far
CompressAccepted(fl, cpu, renameOnly) ==
    /\ ~AlreadyRunning(compressionState)
    /\ session.runs < MaxRuns
    /\ LET cs == AcceptedState(compressionState, Len(fl))
           st == StartImages("gui", fl, cpu,
                             [i \in 1..Len(fl) |-> QueuedTask], cs.shouldCancel)
       IN  /\ run' = RunAt("gui", st.phase)
           /\ task' = st.task
           /\ pool' = st.pool
           /\ compressionState' = EndOfRun(cs, st.phase)
    /\ files' = fl
    /\ cpuCount' = cpu
    /\ opts' = [renameOnly |-> renameOnly]
    /\ fsys' = {}
    /\ session' = [session EXCEPT
           !.runs = @ + 1, !.response = "started", !.cancelled = FALSE,
           !.stale = IF @ = "pending" THEN "carried" ELSE "none"]
    /\ UNCHANGED <<cli, notRunSession>>

\* POST /api/cancel at any time
PostCancel ==
    /\ compressionState' = [compressionState EXCEPT !.shouldCancel = TRUE]
    /\ session' = [session EXCEPT
           !.response = "cancelling",
           !.cancelled = @ \/ compressionState.isRunning,
           !.stale = IF compressionState.isRunning THEN @ ELSE "pending"]
    /\ UNCHANGED <<run, cpuCount, files, opts, task, fsys, pool, cli, notRunSession>>

\* the batches of the sessions: images and videos that all share one base
\* name, compressed rather than only renamed
SessionLists == {fl \in LiveLists : \A i \in 1..Len(fl) : fl[i].base = 1}

NextSession ==
    \/ \E fl \in SessionLists, cpu \in CpuCounts : CompressAccepted(fl, cpu, FALSE)
    \/ CompressRejected
    \/ PostCancel
    \/ \E i \in Items, mkdirOk \in BOOLEAN : DateResolved(i, mkdirOk)
    \/ \E i \in Items : OutputCreated(i)
    \/ \E i \in Items, size \in 1..MaxSize : TranscodeSucceeded(i, size)
    \/ \E i \in Items : TranscodeFailed(i)

SpecSession == InitSession /\ [][NextSession]_vars

\* ------------------------------------------------------------------------
\* Capture date: getCaptureDate (utils.js)
\* ------------------------------------------------------------------------
ToLocalAsUTCAdds(date, offset) ==
    IF date.valid THEN DateOf(date.time + offset * 60) ELSE InvalidDate

\* const toLocalAsUTC = (date) =>
\*     new Date(date.getTime() - date.getTimezoneOffset() * 60000)
\* in seconds; offset is getTimezoneOffset(), minutes; NaN stays NaN
ToLocalAsUTC(date, offset) ==
    IF date.valid THEN DateOf(date.time - offset * 60) ELSE InvalidDate

\* what the sidecar lookup and read can come to: no sidecar file, a read or
\* JSON.parse that throws, no photoTakenTime.timestamp, a timestamp parseInt
\* turns into NaN, a timestamp parseInt turns into a number
SidecarCases == {"none", "threw", "absent", "nan", "ok"}

\* what the embedded metadata can come to: sharp / exifReader throws or
\* ffprobe reports err, no date tag, a tag the Date constructor cannot parse,
\* a tag it can
MetaCases == {"error", "none", "unparsable", "ok"}

\* new Date(exifDate), new Date(creationTime)
NewDate(meta, time) == IF meta = "ok" THEN DateOf(time) ELSE InvalidDate

\* the instants in the sidecar, in the embedded tag and of the last write
SidecarTimes == {SampleTimestamp + k * 3456789 : k \in 0..MaxTimes}
MetaTime == SampleTimestamp - 86400
MTime == SampleTimestamp + 86400

\* getTimezoneOffset(): whole hours, UTC+MaxZone .. UTC-MaxZone
Offsets == {60 * z : z \in (0 - MaxZone)..MaxZone}

\* getCaptureDate(filePath) of an image or a video
GetCaptureDate(kind, sidecar, stamp, meta, statOk, offset) ==
    LET mtimeDate == IF statOk THEN Some(ToLocalAsUTC(DateOf(MTime), offset)) ELSE Null
    IN  IF sidecar = "ok"
        THEN Some(ToLocalAsUTC(DateOf(stamp), offset))
        ELSE IF kind = "image"
        THEN (IF meta \in {"unparsable", "ok"}
              THEN Some(NewDate(meta, MetaTime))
              ELSE mtimeDate)
        ELSE LET metadataDate ==
                     IF meta \in {"unparsable", "ok"}
                     THEN Some(ToLocalAsUTC(NewDate(meta, MetaTime), offset))
                     ELSE Null
             IN  IF metadataDate # Null /\ mtimeDate # Null THEN metadataDate
                 ELSE IF mtimeDate # Null THEN mtimeDate
                 ELSE IF metadataDate # Null THEN metadataDate
                 ELSE Null

InitDate ==
    /\ ParIdle
    /\ ProcIdle
    /\ SessionIdle
    /\ ProbeIdle
    /\ SideIdle
    /\ CopyIdle
    /\ ConcIdle
    /\ NormIdle
    /\ EncLoaded
    /\ CmpIdle
    /\ RunIdle
    /\ PlanIdle
    /\ \E kind \in Kinds, sidecar \in SidecarCases, stamp \in SidecarTimes,
          meta \in MetaCases, statOk \in BOOLEAN, offset \in Offsets :
           capture = [NoCapture EXCEPT !.pc = "called", !.kind = kind,
                                       !.sidecar = sidecar, !.stamp = stamp,
                                       !.meta = meta, !.statOk = statOk,
                                       !.offset = offset]

\* getCaptureDate returns
CaptureDateReturned ==
    /\ capture.pc = "called"
    /\ capture' = [capture EXCEPT
           !.pc = "resolved",
           !.date = GetCaptureDate(capture.kind, capture.sidecar, capture.stamp,
                                   capture.meta, capture.statOk, capture.offset)]
    /\ UNCHANGED notDate

\* formatDateForFilename(date) of what it returned
NameFormatted ==
    /\ capture.pc = "resolved"
    /\ capture' = [capture EXCEPT !.pc = "named",
                                  !.name = FormatDateForFilename(capture.date)]
    /\ UNCHANGED notDate

NextDate == CaptureDateReturned \/ NameFormatted

SpecDate == InitDate /\ [][NextDate]_vars

\* ------------------------------------------------------------------------
\* Output extension: normalizeOutputExtension (utils.js)
\* ------------------------------------------------------------------------
\* a sample of the extensions that are in neither list, and no extension
OtherExts == {"txt", "json", ""}

\* a path: the segments of its directory, the base name, the extension
\* without its dot, in lower case, and whether it is written in upper case
FilePath(dir, base, ext, upper) ==
    [dir |-> dir, base |-> base, ext |-> ext, upper |-> upper]

\* path.join normalizes: '.' segments disappear
RECURSIVE PathNormalize(_)
PathNormalize(dir) ==
    IF dir = << >> THEN << >>
    ELSE IF Head(dir) = "." THEN PathNormalize(Tail(dir))
    ELSE <<Head(dir)>> \o PathNormalize(Tail(dir))

\* path.join(dir, `${baseName}${targetExt}`)
PathJoin(dir, base, ext) == FilePath(PathNormalize(dir), base, ext, FALSE)

\* const targetExt = imageFormat.startsWith('.') ? imageFormat : `.${imageFormat}`
\* as an extension without its dot
TargetExt(format, dot) == format

\* normalizeOutputExtension(filePath, imageFormat), the whole path; the
\* extension is tested in lower case
NormalizeOutputPath(filePath, format, dot) ==
    IF filePath.ext \in ImageExts \cup VideoExts
    THEN PathJoin(filePath.dir, filePath.base,
                  NormalizeOutputExtension(filePath.ext, TargetExt(format, dot)))
    ELSE filePath

\* --image-format, with or without a leading dot
DotForms == BOOLEAN

SampleDirs == {<< >>, <<".">>, <<"in">>, <<"in", ".", "sub">>}
SampleBases == {"IMG_0001", "clip.v2"}

InitNorm ==
    /\ ParIdle
    /\ ProcIdle
    /\ SessionIdle
    /\ ProbeIdle
    /\ SideIdle
    /\ CopyIdle
    /\ ConcIdle
    /\ EncLoaded
    /\ CmpIdle
    /\ RunIdle
    /\ PlanIdle
    /\ DateIdle
    /\ \E dir \in SampleDirs, base \in SampleBases,
          ext \in ImageExts \cup VideoExts \cup OtherExts, upper \in BOOLEAN,
          format \in ImageFormats, dot \in DotForms :
           norm = [NoNorm EXCEPT !.pc = "called",
                                 !.filePath = FilePath(dir, base, ext, upper),
                                 !.format = format, !.dot = dot]

NormalizeReturned ==
    /\ norm.pc = "called"
    /\ norm' = [norm EXCEPT !.pc = "returned",
                            !.out = NormalizeOutputPath(norm.filePath, norm.format, norm.dot)]
    /\ UNCHANGED notNorm

NextNorm == NormalizeReturned

SpecNorm == InitNorm /\ [][NextNorm]_vars

\* ------------------------------------------------------------------------
\* Concurrency figures: processFiles (server.js), processDirectory (index.js)
\* ------------------------------------------------------------------------
\* const THREADS_PER_VIDEO = Math.max(2, Math.floor(cpuCount / VIDEO_CONCURRENCY))
ThreadsPerVideo(cpu) == Max(2, cpu \div VideoConcurrency(cpu))

\* const concurrency = options.jobs ? parseInt(options.jobs, 10) : getOptimalConcurrency()
CliImageConcurrency(jobs, cpu) ==
    IF jobs # Null THEN jobs[1] ELSE GetOptimalConcurrency(cpu)

\* os.cpus().length
CpuThreads == 1..MaxCpus

\* -j, --jobs <number>: absent, or a positive number
JobsOptions == {Null} \cup {Some(n) : n \in 1..MaxJobs}

InitConc ==
    /\ ParIdle
    /\ ProcIdle
    /\ SessionIdle
    /\ ProbeIdle
    /\ SideIdle
    /\ CopyIdle
    /\ EncLoaded
    /\ CmpIdle
    /\ RunIdle
    /\ PlanIdle
    /\ DateIdle
    /\ NormIdle
    /\ \E cpu \in CpuThreads :
          \/ figures = [NoFigures EXCEPT !.pc = "called", !.front = "gui", !.cpus = cpu]
          \/ \E jobs \in JobsOptions :
                figures = [NoFigures EXCEPT !.pc = "called", !.front = "cli",
                                            !.cpus = cpu, !.jobs = jobs]

\* server.js processFiles, lines 147-159
GuiFiguresComputed ==
    /\ figures.pc = "called"
    /\ figures.front = "gui"
    /\ figures' = [figures EXCEPT !.pc = "computed",
                                  !.image = ImageConcurrency(figures.cpus),
                                  !.video = VideoConcurrency(figures.cpus),
                                  !.threads = ThreadsPerVideo(figures.cpus)]
    /\ UNCHANGED notConc

\* index.js processDirectory, lines 167 and 256
CliFiguresComputed ==
    /\ figures.pc = "called"
    /\ figures.front = "cli"
    /\ figures' = [figures EXCEPT !.pc = "computed",
                                  !.image = CliImageConcurrency(figures.jobs, figures.cpus),
                                  !.video = CliVideoConcurrency(figures.cpus)]
    /\ UNCHANGED notConc

NextConc == GuiFiguresComputed \/ CliFiguresComputed

SpecConc == InitConc /\ [][NextConc]_vars

\* ------------------------------------------------------------------------
\* Rename-only mode, one item: processSingleFile (server.js), the two
\* processors of processDirectory (index.js)
\* ------------------------------------------------------------------------
MustConvertNever(ext) == FALSE

\* if (ext === '.heic' || ext === '.heif'): converted even in renameOnly mode
MustConvert(ext) == ext \in {"heic", "heif"}

\* the extensions of the items of a run
ItemExts == ImageExts \cup {"heif"} \cup VideoExts

\* result = { originalSize: originalSize, compressedSize: originalSize, .. }
RenameOnlyResult(it) ==
    [it EXCEPT !.pc = "settled", !.form = "source", !.counted = "success",
               !.originalSize = it.size, !.compressedSize = it.size]

InitCopy ==
    /\ ParIdle
    /\ ProcIdle
    /\ SessionIdle
    /\ ProbeIdle
    /\ SideIdle
    /\ EncLoaded
    /\ CmpIdle
    /\ RunIdle
    /\ PlanIdle
    /\ DateIdle
    /\ NormIdle
    /\ ConcIdle
    /\ \E front \in {"gui", "cli"}, ext \in ItemExts, size \in 1..MaxSize :
           item = [NoItem EXCEPT !.pc = "planned", !.front = front,
                                 !.ext = ext, !.size = size]

\* if (renameOnly): fs.copyFileSync(file.path, outputPath) and the result, or
\* the call of compressImage for a HEIC / HEIF image
RenameOnlyBranch ==
    /\ item.pc = "planned"
    /\ item' = IF MustConvert(item.ext) /\ item.ext \notin VideoExts
               THEN [item EXCEPT !.pc = "converting"]
               ELSE RenameOnlyResult(item)
    /\ UNCHANGED notCopy

\* compressImage resolved: a conversion is kept whatever its size
HeicItemConverted(compressedSize) ==
    /\ item.pc = "converting"
    /\ item' = [item EXCEPT !.pc = "settled", !.form = "encoded",
                            !.counted = "success",
                            !.originalSize = item.size,
                            !.compressedSize = compressedSize]
    /\ UNCHANGED notCopy

\* compressImage rejected: the catch block copies the original; the GUI
\* counts a failure, the CLI a success without savings
HeicItemFailed ==
    /\ item.pc = "converting"
    /\ item' = [item EXCEPT !.pc = "settled", !.form = "source",
                            !.counted = IF item.front = "gui" THEN "failed" ELSE "success",
                            !.originalSize = IF item.front = "gui" THEN 0 ELSE item.size,
                            !.compressedSize = IF item.front = "gui" THEN 0 ELSE item.size]
    /\ UNCHANGED notCopy

NextCopy ==
    \/ RenameOnlyBranch
    \/ \E compressedSize \in 1..(MaxSize + 1) : HeicItemConverted(compressedSize)
    \/ HeicItemFailed

SpecCopy == InitCopy /\ [][NextCopy]_vars

\* ------------------------------------------------------------------------
\* Period folders: processSingleFile's yearFolder (server.js) and
\* determineTargetFile's --organize folder (index.js, formatDateForFolder)
\* ------------------------------------------------------------------------
\* the folder names: a year, a year-month, 'other', 'Unknown_Date', 'NaN'
YearFolder(year) == [kind |-> "year", year |-> year, month |-> 0]
MonthFolder(year, month) == [kind |-> "month", year |-> year, month |-> month]
OtherFolder == [NoFolder EXCEPT !.kind = "other"]
UnknownDateFolder == [NoFolder EXCEPT !.kind = "unknown"]
NaNFolder == [NoFolder EXCEPT !.kind = "nan"]

\* date.getFullYear(): the year of the host's local time at the instant the
\* Date holds, offset being getTimezoneOffset()
GetFullYear(date, offset) == UTCFields(date.time - offset * 60).year

\* formatDateForFolder(date)
FormatDateForFolder(date) ==
    IF date = Null \/ ~date[1].valid
    THEN UnknownDateFolder
    ELSE MonthFolder(UTCFields(date[1].time).year, UTCFields(date[1].time).month)

\* if (captureDate) { .. yearFolder = captureDate.getFullYear().toString() }
\* else { .. yearFolder = 'other' }
GuiYearFolder(date, offset) ==
    IF date = Null THEN OtherFolder
    ELSE IF ~date[1].valid THEN NaNFolder
    ELSE YearFolder(GetFullYear(date[1], offset))

\* 2021-01-01T00:00:00Z and the sidecar instants around it, half an hour apart
NewYear == 1609459200
YearEndTimes == {NewYear + 1800 * k : k \in (0 - MaxHalfHours)..MaxHalfHours}

Fronts == {"gui", "cli"}

InitPeriod ==
    /\ ParIdle
    /\ ProcIdle
    /\ SessionIdle
    /\ ProbeIdle
    /\ EncLoaded
    /\ CmpIdle
    /\ RunIdle
    /\ PlanIdle
    /\ NormIdle
    /\ ConcIdle
    /\ CopyIdle
    /\ SideIdle
    /\ \E kind \in Kinds, sidecar \in {"none", "ok"}, stamp \in YearEndTimes,
          meta \in {"none", "ok"}, statOk \in BOOLEAN, offset \in Offsets,
          front \in Fronts :
           capture = [NoCapture EXCEPT !.pc = "called", !.kind = kind,
                                       !.sidecar = sidecar, !.stamp = stamp,
                                       !.meta = meta, !.statOk = statOk,
                                       !.offset = offset, !.front = front]

\* processSingleFile with categoryByYear: the new file name and the year
\* folder from captureDate
GuiOutputPlanned ==
    /\ capture.pc = "resolved"
    /\ capture.front = "gui"
    /\ capture' = [capture EXCEPT
           !.pc = "planned",
           !.name = IF capture.date = Null THEN OriginalName
                    ELSE FormatDateForFilename(capture.date),
           !.folder = GuiYearFolder(capture.date, capture.offset)]
    /\ UNCHANGED notDate

\* determineTargetFile with --organize and --rename: the folder from
\* formatDateForFolder, the name from getFinalOutputPath
CliOutputPlanned ==
    /\ capture.pc = "resolved"
    /\ capture.front = "cli"
    /\ capture' = [capture EXCEPT
           !.pc = "planned",
           !.name = IF capture.date = Null THEN OriginalName
                    ELSE FormatDateForFilename(capture.date),
           !.folder = FormatDateForFolder(capture.date)]
    /\ UNCHANGED notDate

NextPeriod == CaptureDateReturned \/ GuiOutputPlanned \/ CliOutputPlanned

SpecPeriod == InitPeriod /\ [][NextPeriod]_vars

\* ------------------------------------------------------------------------
\* Sidecar lookup: findJsonSidecar (utils.js); names are sequences of
\* characters
\* ------------------------------------------------------------------------
StartsWith(s, t) == Len(t) <= Len(s) /\ SubSeq(s, 1, Len(t)) = t

EndsWith(s, t) == Len(t) <= Len(s) /\ SubSeq(s, Len(s) - Len(t) + 1, Len(s)) = t

\* String.prototype.toLowerCase, on the letters the names contain
LowerChar(c) ==
    CASE c = "J" -> "j" [] c = "S" -> "s" [] c = "O" -> "o" [] c = "N" -> "n"
      [] OTHER -> c

ToLowerCase(s) == [k \in 1..Len(s) |-> LowerChar(s[k])]

DotJson == <<".", "j", "s", "o", "n">>

\* '.supplemental-metadata.json', the middle shortened
DotSupplementalJson == <<".", "s", "-", "m">> \o DotJson

\* path.basename(jsonFile, '.json'): the suffix is removed when it is there,
\* letter case included
JsonBase(jsonFile) ==
    IF EndsWith(jsonFile, DotJson) /\ jsonFile # DotJson
    THEN SubSeq(jsonFile, 1, Len(jsonFile) - Len(DotJson))
    ELSE jsonFile

\* if (jsonBase.length >= 8)
MinJsonBaseLen == 8

PrefixQualifiesAnyLength(jsonBase, baseName) == StartsWith(baseName, jsonBase)

\* if (baseName.startsWith(jsonBase)) { if (jsonBase.length >= 8) ..
PrefixQualifies(jsonBase, baseName) ==
    StartsWith(baseName, jsonBase) /\ Len(jsonBase) >= MinJsonBaseLen

\* the for loop over jsonFiles from entry k on, with bestMatch and
\* bestMatchLen so far
RECURSIVE ScanJsonFiles(_, _, _, _, _, _)
ScanJsonFiles(jsonFiles, k, fileName, baseName, bestMatch, bestMatchLen) ==
    IF k > Len(jsonFiles) THEN bestMatch
    ELSE LET jsonFile == jsonFiles[k]
             take == \/ StartsWith(jsonFile, fileName)
                     \/ PrefixQualifies(JsonBase(jsonFile), baseName)
         IN  IF take /\ Len(jsonFile) > bestMatchLen
             THEN ScanJsonFiles(jsonFiles, k + 1, fileName, baseName,
                                Some(jsonFile), Len(jsonFile))
             ELSE ScanJsonFiles(jsonFiles, k + 1, fileName, baseName,
                                bestMatch, bestMatchLen)

\* files.filter(f => f.toLowerCase().endsWith('.json'))
IsJsonFile(f) == EndsWith(ToLowerCase(f), DotJson)

InListing(listing, f) == \E k \in 1..Len(listing) : listing[k] = f

\* findJsonSidecar(filePath), the names within the media file's directory
FindJsonSidecar(baseName, extension, listing) ==
    LET fileName == baseName \o extension
    IN  IF InListing(listing, fileName \o DotJson)
        THEN Some(fileName \o DotJson)
        ELSE IF InListing(listing, fileName \o DotSupplementalJson)
        THEN Some(fileName \o DotSupplementalJson)
        ELSE ScanJsonFiles(SelectSeq(listing, IsJsonFile), 1, fileName, baseName,
                           Null, 0)

\* the media file of the calls: a base name of nine characters, with an
\* extension or without
MediaBase == <<"I", "M", "G", "_", "1", "2", "3", "4", "5">>
MediaExtensions == {<< >>, <<".", "j", "p", "g">>}

\* what the directory may hold next to the media file: sidecars named after
\* a prefix of its base name (7, 8, 9 characters), after its full name
\* (plain, supplemental, with a counter, truncated), in upper case, and of
\* another file
NamesNextTo(extension) ==
    LET fileName == MediaBase \o extension
    IN  {SubSeq(MediaBase, 1, p) \o DotJson : p \in 7..9}
        \cup {fileName \o DotJson,
              fileName \o DotSupplementalJson,
              fileName \o <<"(", "1", ")">> \o DotJson,
              fileName \o <<".", "s">> \o DotJson,
              SubSeq(MediaBase, 1, 8) \o <<".", "J", "S", "O", "N">>,
              <<"o", "t", "h", "e", "r", "_", "0", "1">> \o DotJson}

\* fs.readdirSync(dir): some of these names, in any order
Listings(extension) ==
    {l \in UNION {[1..n -> NamesNextTo(extension)] : n \in 0..MaxListing} :
        \A j, k \in 1..Len(l) : j # k => l[j] # l[k]}

InitSide ==
    /\ ParIdle
    /\ ProcIdle
    /\ SessionIdle
    /\ ProbeIdle
    /\ EncLoaded
    /\ CmpIdle
    /\ RunIdle
    /\ PlanIdle
    /\ DateIdle
    /\ NormIdle
    /\ ConcIdle
    /\ CopyIdle
    /\ \E extension \in MediaExtensions :
          \E listing \in Listings(extension) :
              lookup = [NoLookup EXCEPT !.pc = "called", !.extension = extension,
                                        !.listing = listing]

SidecarReturned ==
    /\ lookup.pc = "called"
    /\ lookup' = [lookup EXCEPT
           !.pc = "returned",
           !.found = FindJsonSidecar(MediaBase, lookup.extension, lookup.listing)]
    /\ UNCHANGED notSide

NextSide == SidecarReturned

SpecSide == InitSide /\ [][NextSide]_vars

\* ========================================================================
\* Properties
\* ========================================================================

\* ---- batch runs ----
Launched == {i \in DOMAIN task : task[i].launches > 0}
InFlight == {i \in DOMAIN task : task[i].pc \notin {"queued", "done"}}
Settled == {i \in DOMAIN task : task[i].pc = "done"}
Cancelled == compressionState.shouldCancel

\* items whose transcode succeeded (or whose rename-only copy was made), and
\* items whose transcode failed
TranscodeOk == {i \in DOMAIN task : task[i].res = "ok"}
TranscodeKo == {i \in DOMAIN task : task[i].res \in {"fail", "copied"}}

\* the path an item's output ended at: where the catch block copied the
\* original if it re-planned, else the planned path
FinalPath(i) == IF task[i].copyPath # NoPath THEN task[i].copyPath ELSE task[i].path

\* what the summary of the run reports
ReportedSucceeded ==
    IF run.mode = "gui" THEN compressionState.success ELSE cli.successCount
ReportedFailed ==
    IF run.mode = "gui" THEN compressionState.failed ELSE cli.failCount

\* C1: at no instant of a run of either pool are more than C tasks in
\* flight, C the pool's concurrency, a task being in flight from its launch
\* until it settles.
C1_InFlightWithinConcurrency ==
    run.mode # "none" =>
        /\ pool.conc >= 1
        /\ InFlight = pool.executing
        /\ Cardinality(InFlight) <= pool.conc

\* a pool holds C tasks in flight while a further item waits for a slot
C1_Witness ==
    /\ run.mode # "none"
    /\ pool.pc = "race"
    /\ Cardinality(InFlight) = pool.conc
    /\ pool.next <= Len(pool.items)

\* C2: when cancellation is never requested, no task is launched twice, a
\* pool's promise resolves only after every one of its N items was launched
\* once and has settled, and it carries N outcomes, one per item.
C2_AllLaunchedOnceAndJoined ==
    ~Cancelled =>
        /\ \A i \in DOMAIN task : task[i].launches <= 1
        /\ pool.pc = "done" =>
               /\ pool.results = pool.items
               /\ \A k \in 1..Len(pool.items) :
                      /\ task[pool.items[k]].launches = 1
                      /\ task[pool.items[k]].pc = "done"
        /\ run.phase \in {"videos", "done"} =>
               \A i \in DOMAIN task :
                   files[i].type = "image" =>
                       task[i].launches = 1 /\ task[i].pc = "done"
        /\ run.phase = "done" =>
               \A i \in DOMAIN task : task[i].launches = 1 /\ task[i].pc = "done"

\* a run without cancellation ended, its last pool having joined several tasks
C2_Witness ==
    /\ run.phase = "done"
    /\ ~Cancelled
    /\ pool.pc = "done"
    /\ Len(pool.results) >= 2
    /\ Len(files) > Len(pool.items)

\* C3: within one run no two items end at the same final output path,
\* whatever the interleaving of the tasks.
C3_DistinctFinalPaths ==
    \A i, j \in DOMAIN task :
        (i # j /\ task[i].res \in {"ok", "copied"} /\ task[j].res \in {"ok", "copied"})
            => FinalPath(i) # FinalPath(j)

\* C4: once the cancel flag is set no further task is launched and no
\* further file-start is emitted, and when the run ends every task that was
\* launched has been counted, so that the completed count is the number
\* launched at the moment of cancellation.
C4_CancelStopsLaunches ==
    [][(run.mode = "gui" /\ Cancelled) =>
          /\ \A i \in DOMAIN task :
                 /\ task'[i].launches = task[i].launches
                 /\ task'[i].started = task[i].started
          /\ compressionState'.processed <= Cardinality(Launched)
          /\ run'.phase = "done" => compressionState'.processed = Cardinality(Launched)]_vars

\* C5: after every item whose transcode failed, the path that was handed to
\* the transcoder holds a copy of the item's source.
C5_FailedItemLeavesCopyAtPlannedPath ==
    \A i \in DOMAIN task :
        (i \in Settled /\ i \in TranscodeKo) =>
            [path |-> task[i].path, src |-> i, form |-> "source"] \in fsys

\* C6: the summary counts as succeeded exactly the items whose transcode
\* succeeded and as failed exactly those whose transcode failed, and
\* succeeded + failed is the number of settled items.
C6_SummaryCountsTranscodeOutcomes ==
    run.phase = "done" =>
        /\ ReportedSucceeded = Cardinality(TranscodeOk)
        /\ ReportedFailed = Cardinality(TranscodeKo)
        /\ ReportedSucceeded + ReportedFailed = Cardinality(Settled)

\* C8: in the map a detection returns, a hardware encoder is true iff the
\* listing contained it and its smoke test then passed; the smoke test is
\* run only for listed encoders; x264 and x265 are true unconditionally.
C8_AvailableIffListedAndTested ==
    /\ lastRun # Null =>
          LET r == lastRun[1] IN
          /\ \A e \in HwIds :
                /\ r.results[e] = (r.listed[e] /\ r.tested[e] /\ r.passed[e])
                /\ r.tested[e] => r.listed[e]
          /\ r.results.x264 /\ r.results.x265
    /\ \A c \in Callers :
          /\ \A e \in HwIds : caller[c].tested[e] => caller[c].listed[e]
          /\ caller[c].ret # Null => caller[c].ret[1].x264 /\ caller[c].ret[1].x265

\* a detection has returned with one encoder listed but failing its smoke
\* test, one listed and passing, one not listed
C8_Witness ==
    /\ lastRun # Null
    /\ \E e1, e2, e3 \in HwIds :
          /\ lastRun[1].listed[e1] /\ lastRun[1].tested[e1] /\ ~lastRun[1].passed[e1]
          /\ lastRun[1].listed[e2] /\ lastRun[1].passed[e2] /\ lastRun[1].results[e2]
          /\ ~lastRun[1].listed[e3] /\ ~lastRun[1].tested[e3]

\* the fixed preference list of a requested id
PreferenceList(requested) ==
    CASE requested \in {"auto", "nvenc"} -> <<"nvenc", "amf", "qsv", "x264">>
      [] requested = "amf" -> <<"amf", "qsv", "x264">>
      [] requested = "qsv" -> <<"qsv", "x264">>
      [] requested = "x264" -> <<"x264">>
      [] requested = "x265" -> <<"x265">>

FirstAvailable(list, available) ==
    list[CHOOSE i \in 1..Len(list) :
            /\ available[list[i]]
            /\ \A j \in 1..(i - 1) : ~available[list[j]]]

\* C9: for every availability map and every requested id, getEncoderConfig
\* returns the first available profile of the id's preference list, and
\* the returned profile is marked available in the map.
C9_FirstAvailableOfPreferenceList ==
    \A c \in Callers :
        caller[c].config # Null =>
            LET available == caller[c].ret[1]
                cfg == caller[c].config[1]
            IN /\ cfg.type = FirstAvailable(PreferenceList(settingsEncoder), available)
               /\ cfg.type \in EncoderIds
               /\ available[cfg.type]
               /\ cfg.codec = EncoderCodec(cfg.type)

\* nvenc was requested, nvenc and amf are unavailable, qsv is returned
C9_Witness ==
    \E c \in Callers :
        /\ caller[c].config # Null
        /\ settingsEncoder = "nvenc"
        /\ ~caller[c].ret[1].nvenc /\ ~caller[c].ret[1].amf
        /\ caller[c].config[1].type = "qsv"

\* C10: from an empty cache (and with no path override), calls of
\* detectAvailableEncoders that overlap in time run the detection procedure
\* only once, and all callers receive the same result.
C10_DetectionRunsOnce ==
    ffmpegPath = 0 =>
        /\ detRuns <= 1
        /\ \A c1, c2 \in Callers :
              (caller[c1].ret # Null /\ caller[c2].ret # Null)
                  => caller[c1].ret = caller[c2].ret

\* C7: if the transcoded artifact is not smaller than the original and source
\* and target extension are the same format, then after compressImage /
\* compressVideo has returned the bytes at the output path are the source
\* bytes and the reported compressedSize equals originalSize.
C7_NotSmallerKeepsSource ==
    (/\ cmp.pc = "returned"
     /\ cmp.encodedSize >= cmp.originalSize
     /\ FormatOf(cmp.inputExt) = FormatOf(cmp.outputExt))
        => (cmp.outBytes = "source" /\ cmp.compressedSize = cmp.originalSize)

\* ---- planners ----
\* renaming by date applies: the GUI server always renames, the CLI with
\* --rename (which --rename-only implies)
RenameByDate == plan.planner = "processSingleFile" \/ plan.rename

\* C11: in every mode and for every planner, the path a planner returns
\* does not exist on disk at the moment it is returned.
C11_PlannedPathNotOnDisk ==
    plan.pc = "returned" => plan.path \notin plan.disk

\* C20: when renaming by date is on and no capture instant was resolved, the
\* planned name is the fallback literal, not the original base name, and it
\* went through collision resolution.
C20_FallbackLiteralWhenNoDate ==
    (plan.pc = "returned" /\ RenameByDate /\ plan.date = Null) =>
        /\ plan.path.name = UnknownName
        /\ plan.path \notin plan.disk

\* C12: every settled item has been counted exactly once, as processed and
\* as exactly one of succeeded / failed, at whatever step its task failed;
\* at the end of an uncancelled run the processed count is the total.
C12_CountedOncePerSettledItem ==
    /\ run.mode = "gui" =>
           /\ compressionState.processed = Cardinality(Settled)
           /\ compressionState.success + compressionState.failed
                  = compressionState.processed
           /\ (run.phase = "done" /\ ~Cancelled) =>
                  compressionState.processed = compressionState.total
    /\ run.mode = "cli" =>
           cli.successCount + cli.failCount = Cardinality(Settled)

\* C13: no video task is launched while an image task is in flight: once
\* any video has been launched every image is settled or was never launched,
\* also when cancellation came during the image phase.
C13_ImagesBeforeVideos ==
    \A v, j \in DOMAIN task :
        (files[v].type = "video" /\ files[j].type = "image" /\ task[v].launches > 0)
            => task[j].pc \in {"queued", "done"}

\* a video is in flight after an image task of the same run has settled
C13_Witness ==
    \E v, j \in DOMAIN task :
        /\ files[v].type = "video" /\ v \in InFlight
        /\ files[j].type = "image" /\ j \in Settled

\* C14: provided every launched task settles, a run accepted by POST
\* /api/compress eventually has emitted 'complete' exactly once with
\* isRunning false, also when items failed or the run was cancelled; never
\* is 'complete' emitted twice.
C14_RunEndsWithOneComplete ==
    /\ [](run.mode = "gui" =>
            <>(run.phase = "done" /\ run.complete = 1 /\ ~compressionState.isRunning))
    /\ [](run.complete <= 1)

\* a cancelled GUI run with a failed item and a never launched one has ended
C14_Witness ==
    /\ run.mode = "gui"
    /\ run.phase = "done" /\ run.complete = 1 /\ ~compressionState.isRunning
    /\ Cancelled
    /\ \E i \in DOMAIN task : task[i].res \in {"fail", "threw"}
    /\ \E i \in DOMAIN task : task[i].launches = 0

\* C15: a task whose processor rejects gets a failure outcome and nothing
\* else changes for the others: in the step in which it settles no sibling
\* in flight is touched, a pool waiting in its race launches the next queued
\* item, and the pool's promise is never rejected; every item of an
\* uncancelled run that ended was launched and has settled.
C15_RejectionStaysInItsTask ==
    /\ [][\A i \in DOMAIN task :
            (i \in DOMAIN task' /\ task[i].res # "threw" /\ task'[i].res = "threw") =>
                /\ task'[i].pc = "done"
                /\ pool'.pc # "rejected"
                /\ \A j \in pool.executing \ {i} : task'[j] = task[j]
                /\ (pool.pc = "race" /\ pool.next <= Len(pool.items)
                        /\ ~compressionState.shouldCancel)
                       => task'[pool.items[pool.next]].launches = 1]_vars
    /\ [](pool.pc # "rejected")
    /\ []((run.phase = "done" /\ ~Cancelled) =>
            \A i \in DOMAIN task : task[i].launches = 1 /\ task[i].pc = "done")

\* an uncancelled run has ended in which a processor rejected while its pool
\* had more items than slots
C15_Witness ==
    /\ run.phase = "done" /\ ~Cancelled
    /\ Len(pool.items) > pool.conc
    /\ \E i \in DOMAIN task :
           /\ task[i].res = "threw"
           /\ \E k \in 1..pool.conc : pool.items[k] = i
    /\ \A i \in DOMAIN task : task[i].pc = "done"

\* C16: in a run that is not cancelled, whenever a pool waits at capacity
\* with items still queued and one in-flight item settles, the next queued
\* item is launched in that very step, the other in-flight items being left
\* as they were.
C16_SlotRefilledOnSettle ==
    [][\A i \in pool.executing :
          (/\ pool.pc = "race" /\ pool.next <= Len(pool.items)
           /\ ~compressionState.shouldCancel
           /\ task[i].pc # "done" /\ task'[i].pc = "done")
          => /\ task'[pool.items[pool.next]].launches = 1
             /\ pool.items[pool.next] \in pool'.executing
             /\ \A j \in pool.executing \ {i} : task'[j] = task[j]]_vars

\* an item beyond the first slots has been launched while one of the first
\* items is still in flight
C16_Witness ==
    /\ pool.conc >= 2
    /\ \E k \in (pool.conc + 1)..Len(pool.items) : task[pool.items[k]].launches = 1
    /\ \E k \in 1..pool.conc : pool.items[k] \in pool.executing

\* C17: while the cache is filled, a detectAvailableEncoders() call without
\* forceRecheck returns the cached map at once, without entering the
\* detection procedure (no listing, no smoke test); the cache is emptied by
\* setFFmpegPath only; a detection is entered only over an empty cache or
\* with forceRecheck.
C17_CacheReusedUntilInvalidated ==
    /\ [][\A c \in Callers :
            (caller[c].stage = "idle" /\ caller'[c].stage # "idle"
                /\ encoderCache # Null /\ caller'[c].stage # "forced")
            => /\ caller'[c].stage = "done"
               /\ caller'[c].await = "none"
               /\ caller'[c].ret = encoderCache
               /\ detRuns' = detRuns]_vars
    /\ [][(encoderCache # Null /\ encoderCache' = Null)
            => ffmpegPath' # ffmpegPath]_vars
    /\ [][detRuns' # detRuns =>
            \/ encoderCache = Null
            \/ \E c \in Callers : caller[c].stage = "idle" /\ caller'[c].stage = "forced"]_vars

\* two calls were served from the cache that one detection filled
C17_Witness ==
    /\ detRuns = 1
    /\ ffmpegPath = 0
    /\ encoderCache # Null
    /\ \A c \in Callers : caller[c].stage = "done" /\ caller[c].ret = encoderCache

\* a detection was entered over a filled cache by a forced call
C17_ForcedWitness == \E c \in Callers : caller[c].stage = "forced"

\* C18: getCaptureDate returns the first hit of the chain: the sidecar
\* timestamp when it parses; else the embedded date (EXIF for an image,
\* creation time for a video) when there is a usable one; else the
\* modification time whenever the stat succeeds, whatever went wrong before;
\* null only when the stat fails.
C18_FirstHitOfTheChain ==
    capture.pc \in {"resolved", "named"} =>
        LET shift(t) == Some(ToLocalAsUTC(DateOf(t), capture.offset))
        IN  /\ capture.sidecar = "ok" => capture.date = shift(capture.stamp)
            /\ (capture.sidecar # "ok" /\ capture.meta = "ok") =>
                   capture.date = IF capture.kind = "image"
                                  THEN Some(DateOf(MetaTime)) ELSE shift(MetaTime)
            /\ (capture.sidecar # "ok" /\ capture.meta # "ok" /\ capture.statOk) =>
                   capture.date = shift(MTime)
            /\ capture.date = Null => ~capture.statOk

\* seconds since the epoch of calendar fields read as UTC
EpochOf(f) ==
    LET y == IF f.month <= 2 THEN f.year - 1 ELSE f.year
        era == y \div 400
        yoe == y - era * 400
        mp == IF f.month > 2 THEN f.month - 3 ELSE f.month + 9
        doy == (153 * mp + 2) \div 5 + f.day - 1
        doe == yoe * 365 + yoe \div 4 - yoe \div 100 + doy
    IN  (era * 146097 + doe - 719468) * 86400
            + f.hours * 3600 + f.minutes * 60 + f.seconds

\* the general part of C19: the returned date is the timestamp minus
\* offset * 60 seconds and the filename token is the UTC calendar
\* decomposition of that instant
TokenIsShiftedInstant ==
    /\ capture.date = Some(DateOf(capture.stamp - capture.offset * 60))
    /\ capture.name.kind = "date"
    /\ capture.name.fields.month \in 1..12
    /\ capture.name.fields.day \in 1..31
    /\ capture.name.fields.hours \in 0..23
    /\ capture.name.fields.minutes \in 0..59
    /\ capture.name.fields.seconds \in 0..59
    /\ EpochOf(capture.name.fields) = capture.stamp - capture.offset * 60

\* C19 as stated: for a parsable sidecar timestamp the token is the UTC
\* decomposition of timestamp - offset * 60, and for 1610549531 s with
\* getTimezoneOffset() = 300 it reads 2021 01 13 - 08 12 11.
C19_FieldsAsStated ==
    (capture.pc = "named" /\ capture.sidecar = "ok") =>
        /\ TokenIsShiftedInstant
        /\ (capture.stamp = SampleTimestamp /\ capture.offset = 300) =>
               capture.name.fields =
                   [year |-> 2021, month |-> 1, day |-> 13,
                    hours |-> 8, minutes |-> 12, seconds |-> 11]

\* C19 amended: 1610549531 s is 2021-01-13T14:52:11Z, so with
\* getTimezoneOffset() = 300 the token reads 2021 01 13 - 09 52 11; the
\* general rule is as stated.
C19_LocalFieldsOfSidecarTimestamp ==
    (capture.pc = "named" /\ capture.sidecar = "ok") =>
        /\ TokenIsShiftedInstant
        /\ (capture.stamp = SampleTimestamp /\ capture.offset = 300) =>
               capture.name.fields =
                   [year |-> 2021, month |-> 1, day |-> 13,
                    hours |-> 9, minutes |-> 52, seconds |-> 11]

\* the example of the claim has been resolved and formatted
C19_Witness ==
    /\ capture.pc = "named"
    /\ capture.sidecar = "ok"
    /\ capture.stamp = SampleTimestamp
    /\ capture.offset = 300
    /\ capture.name.kind = "date"

\* C21: for every documented encoder id, the profile getEncoderConfig returns
\* is an entry of ENCODER_CONFIGS: its codec (and with it its
\* getOutputOptions) is defined.
C21_DocumentedIdHasProfile ==
    \A c \in Callers :
        caller[c].config # Null =>
            /\ caller[c].config[1].type \in EncoderIds
            /\ caller[c].config[1].codec # "undefined"

Clamp(x, lower, upper) == Max(lower, Min(x, upper))

\* the bounds of the two pools of the GUI, for C30
GuiBoundsOrdered ==
    (figures.pc = "computed" /\ figures.front = "gui") =>
        /\ figures.image \in 4..12
        /\ figures.video \in 2..6
        /\ figures.video <= figures.image

\* C30 as stated: in the CLI the image bound is clamp(floor(cpus/2), 1, 8)
\* and the video bound clamp(floor(cpus/4), 1, 2), in the GUI they are in
\* 4..12 and 2..6, and in both the video bound is at most the image bound.
C30_VideoBoundAtMostImageBound ==
    /\ GuiBoundsOrdered
    /\ (figures.pc = "computed" /\ figures.front = "cli") =>
           /\ figures.image = Clamp(figures.cpus \div 2, 1, 8)
           /\ figures.video = Clamp(figures.cpus \div 4, 1, 2)
           /\ figures.video <= figures.image

\* C30 amended: the same, for a CLI run without -j/--jobs; with --jobs n the
\* image bound is n, whatever the CPU count.
C30_VideoBoundAtMostDefaultImageBound ==
    /\ GuiBoundsOrdered
    /\ (figures.pc = "computed" /\ figures.front = "cli") =>
           /\ figures.video = Clamp(figures.cpus \div 4, 1, 2)
           /\ figures.jobs = Null =>
                  /\ figures.image = Clamp(figures.cpus \div 2, 1, 8)
                  /\ figures.video <= figures.image
           /\ figures.jobs # Null => figures.image = figures.jobs[1]

\* a CLI run without --jobs on a machine where both clamps are at their top
C30_Witness ==
    /\ figures.pc = "computed" /\ figures.front = "cli" /\ figures.jobs = Null
    /\ figures.image = 8 /\ figures.video = 2

LoopEntered ==
    \/ plan.planner = "processSingleFile"
    \/ plan.planner = "determineTargetFile" /\ (~plan.rename \/ plan.date # Null)
    \/ plan.planner = "getFinalOutputPath" /\ plan.rename /\ plan.date # Null

\* C25: whatever the directory holds, the loop ends and returns the
\* unsuffixed path when it is free, and else the suffixed path with the
\* smallest counter, from 1 on, that is free.
C25_FirstFreeCounter ==
    (plan.pc = "returned" /\ LoopEntered) =>
        /\ plan.path \notin plan.disk
        /\ \A k \in 0..(plan.path.n - 1) :
               [name |-> plan.path.name, n |-> k] \in plan.disk

\* the unsuffixed path and every counter up to MaxCounter were taken
C25_Witness ==
    /\ plan.pc = "returned" /\ LoopEntered
    /\ plan.path.n = MaxCounter + 1

\* the items of the GUI run whose outcome processItem has counted
Counted == {i \in DOMAIN task : task[i].res \in {"ok", "fail"}}

\* C26: in a GUI run the processed count, which every overall-progress event
\* reports right after its increment, goes up by exactly 1 at a time, each
\* time for exactly one newly counted item, equals the number of counted
\* items and never exceeds the total.
C26_ProcessedCountStepsByOne ==
    /\ [](run.mode = "gui" =>
            /\ compressionState.processed = Cardinality(Counted)
            /\ compressionState.processed <= compressionState.total)
    /\ [][(run.mode = "gui" /\ compressionState'.processed # compressionState.processed) =>
            /\ compressionState'.processed = compressionState.processed + 1
            /\ \E i \in DOMAIN task : Counted' = Counted \cup {i} /\ i \notin Counted]_vars

\* every item of a run of MaxFiles items has been counted, one of them as
\* failed
C26_Witness ==
    /\ run.mode = "gui"
    /\ compressionState.total = MaxFiles
    /\ compressionState.processed = MaxFiles
    /\ compressionState.failed >= 1

\* how often event e is among the events of item i
TimesSent(i, e) ==
    Cardinality({k \in 1..Len(task[i].events) : task[i].events[k] = e})

Terminals(i) == TimesSent(i, "file-complete") + TimesSent(i, "file-error")

\* C27: for every item of a GUI run, file-start is sent at most once and
\* before any other event of the item; an item that sent file-start sends
\* exactly one of file-complete and file-error: never more than one, the one
\* is there when the item has settled, and it does come; an item that was
\* never launched sends nothing.
C27_PerItemEventProtocol ==
    /\ [](run.mode = "gui" =>
            \A i \in DOMAIN task :
                /\ TimesSent(i, "file-start") <= 1
                /\ task[i].events # << >> => task[i].events[1] = "file-start"
                /\ Terminals(i) <= 1
                /\ (task[i].pc = "done" /\ TimesSent(i, "file-start") = 1)
                       => Terminals(i) = 1
                /\ Terminals(i) = 1 => task[i].events[Len(task[i].events)]
                                           \in {"file-complete", "file-error"}
                /\ task[i].launches = 0 => task[i].events = << >>)
    /\ \A i \in Items :
           [](run.mode = "gui" /\ i \in DOMAIN task /\ task[i].events # << >>
                => <>(i \in DOMAIN task /\ Terminals(i) = 1))

\* a cancelled run has ended: one item sent file-start and then file-error,
\* and one item was skipped and sent nothing
C27_Witness ==
    /\ run.mode = "gui" /\ run.phase = "done" /\ Cancelled
    /\ \E i \in DOMAIN task : task[i].events = <<"file-start", "file-error">>
    /\ \E i \in DOMAIN task : task[i].launches = 0 /\ task[i].events = << >>

\* the JSON names of the listing that start with the media file's full name
FullNameCandidates ==
    {k \in 1..Len(lookup.listing) :
        /\ IsJsonFile(lookup.listing[k])
        /\ StartsWith(lookup.listing[k], MediaBase \o lookup.extension)}

\* the other JSON names whose base name is a prefix of the media file's base
\* name
PrefixCandidates ==
    {k \in 1..Len(lookup.listing) \ FullNameCandidates :
        /\ IsJsonFile(lookup.listing[k])
        /\ StartsWith(MediaBase, JsonBase(lookup.listing[k]))}

LongPrefixCandidates ==
    {k \in PrefixCandidates : Len(JsonBase(lookup.listing[k])) >= 8}

\* the result is one of the names at the positions ks, and none of them is
\* longer
LongestOf(ks) ==
    /\ \E k \in ks : lookup.found = Some(lookup.listing[k])
    /\ \A k \in ks : Len(lookup.listing[k]) <= Len(lookup.found[1])

ExactSidecars ==
    <<MediaBase \o lookup.extension \o DotJson,
      MediaBase \o lookup.extension \o DotSupplementalJson>>

\* C28: findJsonSidecar returns path + '.json' when it exists, else
\* path + '.supplemental-metadata.json' when it exists; else, whatever the
\* order of the listing, the longest JSON name that starts with the media
\* file's full name when there is one, else the longest JSON name whose base
\* name is a prefix of at least 8 characters of the media file's base name,
\* else nothing; a prefix of fewer than 8 characters is never returned
C28_FullNameBeforePrefix ==
    lookup.pc = "returned" =>
        /\ InListing(lookup.listing, ExactSidecars[1]) =>
               lookup.found = Some(ExactSidecars[1])
        /\ /\ ~InListing(lookup.listing, ExactSidecars[1])
           /\ InListing(lookup.listing, ExactSidecars[2])
           => lookup.found = Some(ExactSidecars[2])
        /\ (\A e \in 1..2 : ~InListing(lookup.listing, ExactSidecars[e])) =>
               /\ FullNameCandidates # {} => LongestOf(FullNameCandidates)
               /\ FullNameCandidates = {} /\ LongPrefixCandidates # {} =>
                      LongestOf(LongPrefixCandidates)
               /\ FullNameCandidates = {} /\ LongPrefixCandidates = {} =>
                      lookup.found = Null
        /\ \A k \in PrefixCandidates \ LongPrefixCandidates :
               lookup.found # Some(lookup.listing[k])

\* a listing without an exact sidecar where a prefix sidecar comes before and
\* a shorter-than-8 prefix sidecar after the full-name sidecar that is returned
C28_Witness ==
    /\ lookup.pc = "returned"
    /\ \A e \in 1..2 : ~InListing(lookup.listing, ExactSidecars[e])
    /\ \E f \in FullNameCandidates :
          /\ lookup.found = Some(lookup.listing[f])
          /\ \E p \in LongPrefixCandidates : p < f
          /\ \E q \in PrefixCandidates \ LongPrefixCandidates : q > f

\* a listing that holds only prefix sidecars, a short one among them, and the
\* longest is returned
C28_PrefixWitness ==
    /\ lookup.pc = "returned"
    /\ FullNameCandidates = {}
    /\ Cardinality(LongPrefixCandidates) = 2
    /\ PrefixCandidates # LongPrefixCandidates
    /\ lookup.found # Null

\* C29: when an item gets a date-based file name and a period folder, the
\* folder's year, and its month when the folder is a year-month, are those
\* the file name starts with
C29_FolderMatchesFileName ==
    capture.pc = "planned" /\ capture.name.kind = "date" =>
        /\ capture.folder.kind \in {"year", "month"}
        /\ capture.folder.year = capture.name.fields.year
        /\ capture.folder.kind = "month" =>
               capture.folder.month = capture.name.fields.month

\* the same of the command line's year-month folders alone
C29_CliFolderMatchesFileName ==
    capture.front = "cli" => C29_FolderMatchesFileName

\* ---- detection failures ----
\* the check of hardware encoder e in the detection r did not get through: in
\* the claim's words (the listing command errored, timed out or produced no
\* output, or the smoke test errored or timed out), and by what the listing
\* command handed over (no text, or text without the encoder's name)
CheckFailed(r, e) ==
    \/ r.listing[e].error # "none"
    \/ r.listing[e].output = "empty"
    \/ r.smoke[e] \in {"failed", "timeout"}

NoUsableListing(r, e) ==
    \/ r.listing[e].output \in {"empty", "without"}
    \/ r.smoke[e] \in {"failed", "timeout"}

\* every returned negotiation holds a profile of an encoder the map has as
\* available, a software one when no hardware encoder is
NegotiationFallsBack ==
    \A c \in Callers :
        caller[c].stage = "done" =>
            /\ caller[c].ret # Null
            /\ caller[c].config # Null
            /\ caller[c].config[1].codec # "undefined"
            /\ caller[c].ret[1][caller[c].config[1].type]
            /\ (\A e \in HwIds : ~caller[c].ret[1][e]) =>
                   caller[c].config[1].type \in SwIds

\* C31 as stated: a detection whose listing command errored, timed out or
\* produced no output for an encoder, or whose smoke test of it errored or
\* timed out, returns a map with that encoder false and x264, x265 true, and
\* every negotiation returns a profile of an available encoder
C31_ErroredCheckLeavesEncoderFalse ==
    /\ \A c \in Callers :
           caller[c].stage = "done" /\ caller[c].ret # Null =>
               /\ caller[c].ret[1].x264 /\ caller[c].ret[1].x265
               /\ \A e \in HwIds :
                      CheckFailed(probes[c], e) => ~caller[c].ret[1][e]
    /\ NegotiationFallsBack

\* C31, amended: the error of the listing command is ignored; a detection
\* whose listing text was empty or did not name an encoder, or whose smoke
\* test of it errored or timed out, returns a map with that encoder false and
\* x264, x265 true, and every negotiation returns a profile of an available
\* encoder
C31_UnlistedOrFailedTestLeavesEncoderFalse ==
    /\ \A c \in Callers :
           caller[c].stage = "done" /\ caller[c].ret # Null =>
               /\ caller[c].ret[1].x264 /\ caller[c].ret[1].x265
               /\ \A e \in HwIds :
                      NoUsableListing(probes[c], e) => ~caller[c].ret[1][e]
    /\ NegotiationFallsBack

\* a negotiation for nvenc returned x264 after a detection in which one
\* listing command timed out without output, one smoke test failed and one
\* listing came back empty
C31_Witness ==
    /\ settingsEncoder = "nvenc"
    /\ \E c \in Callers :
          /\ probes[c].listing["nvenc"] = [error |-> "timeout", output |-> "empty"]
          /\ probes[c].smoke["amf"] = "failed"
          /\ probes[c].listing["qsv"] = [error |-> "none", output |-> "empty"]
          /\ caller[c].stage = "done"
          /\ caller[c].config # Null
          /\ caller[c].config[1].type = "x264"

\* ---- the counters of a GUI run ----
\* the items of the run counted as succeeded
Succeeded == {i \in DOMAIN task : task[i].res = "ok"}

\* the sum of f over the items in S
RECURSIVE SumOver(_, _)
SumOver(S, f) ==
    IF S = {} THEN 0
    ELSE LET i == CHOOSE j \in S : TRUE IN f[i] + SumOver(S \ {i}, f)

\* the compressed size reported for item i when it succeeds: its own size
\* when it was only copied, else what the transcoder reported
ReportedCompressed(i) ==
    IF opts.renameOnly THEN files[i].size
    ELSE CHOOSE c \in CompressedSizes(files[i]) : TRUE

\* C32: in every state of a GUI run processed = success + failed,
\* processed <= total, success is the number of items counted as succeeded,
\* and totalOriginal and totalCompressed are the sums of the original and of
\* the compressed sizes of exactly those items
C32_CountersAddUp ==
    run.mode = "gui" =>
        /\ compressionState.processed
               = compressionState.success + compressionState.failed
        /\ compressionState.processed <= compressionState.total
        /\ compressionState.success = Cardinality(Succeeded)
        /\ compressionState.totalOriginal
               = SumOver(Succeeded, [i \in DOMAIN task |-> files[i].size])
        /\ compressionState.totalCompressed
               = SumOver(Succeeded, [i \in DOMAIN task |-> ReportedCompressed(i)])

\* a finished GUI run with two succeeded items and a failed one, the
\* succeeded ones smaller after compression
C32_Witness ==
    /\ run.mode = "gui"
    /\ run.phase = "done"
    /\ compressionState.success = 2
    /\ compressionState.failed = 1
    /\ compressionState.totalOriginal > compressionState.totalCompressed

\* ---- GUI sessions ----
\* C33: while a run is active (isRunning), no step starts another run or
\* resets the run state: the accepted-runs count, the batch, the total and the
\* task table stay, the counters do not go back and a set cancel flag stays
\* set; and a POST /api/compress answered with the error leaves the whole
\* run state unchanged and is only answered so while a run is active
C33_OneRunAtATime ==
    /\ [][compressionState.isRunning =>
            /\ session'.runs = session.runs
            /\ files' = files
            /\ DOMAIN task' = DOMAIN task
            /\ compressionState'.total = compressionState.total
            /\ compressionState'.processed >= compressionState.processed
            /\ compressionState.shouldCancel => compressionState'.shouldCancel]_vars
    /\ [][session'.response = "rejected" /\ session.response # "rejected" =>
            compressionState.isRunning /\ UNCHANGED varsRun]_vars

\* the second run of a session is active, an item of it is counted, and a
\* further POST /api/compress has just been rejected
C33_Witness ==
    /\ session.runs = 2
    /\ session.response = "rejected"
    /\ compressionState.isRunning
    /\ compressionState.processed >= 1

\* C36: accepting a run leaves the cancel flag false and launches its first
\* item, whatever cancels arrived before; and a finished run in which no
\* cancel arrived has launched every one of its items
C36_CancelOnlyHitsActiveRun ==
    /\ [][session'.runs # session.runs =>
            /\ ~compressionState'.shouldCancel
            /\ \E i \in DOMAIN task' : task'[i].launches = 1]_vars
    /\ [](run.phase = "done" /\ ~session.cancelled =>
            \A i \in DOMAIN task : task[i].launches >= 1)

\* the second run of a session was accepted after a cancel that arrived
\* while no run was active, no cancel arrived during it, and it finished
\* with both of its items launched
C36_Witness ==
    /\ session.runs = 2
    /\ session.stale = "carried"
    /\ ~session.cancelled
    /\ run.phase = "done"
    /\ Len(files) = 2
    /\ \A i \in DOMAIN task : task[i].launches = 1

\* ---- path override ----
\* C34: whenever a detection fills the cache, it was started under the
\* ffmpegPath that is set at that moment: no detection started before a
\* setFFmpegPath call puts its results into the cache after it
C34_NoStaleDetectionInCache ==
    [][\A c \in Callers :
          (/\ caller[c].await # "none"
           /\ caller'[c].stage = "done"
           /\ encoderCache' = caller'[c].ret)
          => probes[c].path = ffmpegPath]_vars

\* C35: the CLI's activeProcesses set holds only the commands of video
\* transcodes that are in flight: once a video task's transcode has ended,
\* by success or by failure, its command is out of the set, so the SIGINT
\* cleanup kills running processes only
C35_OnlyRunningCommandsTracked ==
    \A i \in activeProcesses :
        /\ files[i].type = "video"
        /\ task[i].pc # "done"

\* C37: the array parallelProcess resolves with is in submission order,
\* whatever the order in which the tasks ended: its k-th element is the
\* outcome of the k-th item submitted, the processor's result if the
\* processor resolved and the object {error, item} if it rejected
C37_OutcomesInSubmissionOrder ==
    par.resolved =>
        /\ Len(par.returned) = Len(par.pool.items)
        /\ \A k \in 1..Len(par.pool.items) :
               LET it == par.pool.items[k]
               IN  par.returned[k] =
                       IF par.ended[it] = "rejected"
                       THEN [error |-> "thrown", item |-> it]
                       ELSE [result |-> it]

\* a call has returned whose tasks ended in another order than they were
\* submitted in, one of them by rejecting
C37_Witness ==
    /\ par.resolved
    /\ Len(par.pool.items) >= 2
    /\ \E k \in DOMAIN par.log : par.log[k].promise # par.pool.items[k]
    /\ \E i \in Items : par.ended[i] = "rejected"
    /\ \E i \in Items : par.ended[i] = "resolved"

====
